---- MODULE Spec2Model ----
(***************************************************************************)
(* Behavioural model of the Telegram Business checklist bot (src/bot).     *)
(* One user record is shared by every coroutine through the STATE cache    *)
(* (state.py load_user_state returns the cached object), coroutines        *)
(* interleave only at remote calls (await), and job-queue jobs run         *)
(* concurrently with the update handler.                                   *)
(***************************************************************************)
EXTENDS Integers, Sequences, FiniteSets, TLC

\* ---------------------------------------------------------------------------
\* Bounds of the checked instances
\* ---------------------------------------------------------------------------
MaxTicks == 1
TickMinutes == 720
MaxOps == 3
MaxRollOps == 3
MaxMsgs == 9
MaxPendOps == 4
MaxFairOps == 3

\* ---------------------------------------------------------------------------
\* Values taken from the source
\* ---------------------------------------------------------------------------
MinutesPerDay == 1440
StartNow == 15720
AUTO_SKIP_TIMEOUT == 300
NoneId == 0
NoDate == 0
NoText == <<>>
NoJob == "none"
NoTime == -1
SmileText == <<"s">>
AutoSkipName == "auto-skip"
MidnightName == "user_midnight"

Chars == {"a", "A", "b", " ", "s", "#", "_"}
TagX == <<"#", "a">>
TagY == <<"#", "b">>
Tags == {TagX, TagY}
NoTag == <<>>

\* ---------------------------------------------------------------------------
\* Text helpers: a text is a sequence of characters
\* ---------------------------------------------------------------------------
LowerChar(c) == IF c = "A" THEN "a" ELSE c

Lower(t) == [i \in 1..Len(t) |-> LowerChar(t[i])]

RECURSIVE LStrip(_)
LStrip(t) == IF t # <<>> /\ Head(t) = " " THEN LStrip(Tail(t)) ELSE t

RECURSIVE RStrip(_)
RStrip(t) ==
    IF t # <<>> /\ t[Len(t)] = " " THEN RStrip(SubSeq(t, 1, Len(t) - 1)) ELSE t

Strip(t) == RStrip(LStrip(t))

\* state.py clean_tasks_list: key used for the duplicate-by-text pass
CleanKey(t) == Lower(Strip(t))

\* ---------------------------------------------------------------------------
\* Sequence helpers
\* ---------------------------------------------------------------------------
RECURSIVE SelectSeqBy(_, _)
SelectSeqBy(s, keep) ==
    IF s = <<>> THEN <<>>
    ELSE IF keep[1] THEN <<Head(s)>> \o SelectSeqBy(Tail(s), Tail(keep))
         ELSE SelectSeqBy(Tail(s), Tail(keep))

Range(s) == {s[i] : i \in 1..Len(s)}

MaxOf(S) == IF S = {} THEN 0 ELSE CHOOSE y \in S : \A z \in S : z <= y

\* ---------------------------------------------------------------------------
\* state.py: TaskItem, clean_tasks_list
\* ---------------------------------------------------------------------------
TaskItem(id, text, done) == [item_id |-> id, text |-> text, done |-> done]

\* pass 1: keep the first task of every item_id
CleanById(tasks) ==
    SelectSeqBy(tasks,
        [i \in 1..Len(tasks) |->
            \A j \in 1..(i - 1) : tasks[j].item_id # tasks[i].item_id])

\* pass 2: keep the first task of every strip().lower() text
CleanByText(tasks) ==
    SelectSeqBy(tasks,
        [i \in 1..Len(tasks) |->
            \A j \in 1..(i - 1) : CleanKey(tasks[j].text) # CleanKey(tasks[i].text)])

\* a cleaning that removes the duplicates by text first
clean_tasks_list_text_first(tasks) == CleanById(CleanByText(tasks))

clean_tasks_list(tasks) == CleanByText(CleanById(tasks))

NotDone(tasks) == SelectSeqBy(tasks, [i \in 1..Len(tasks) |-> ~tasks[i].done])

Done(tasks) == SelectSeqBy(tasks, [i \in 1..Len(tasks) |-> tasks[i].done])

\* a close that keeps the item ids
RenumberKeepIds(tasks) == tasks

Renumber(tasks) == [i \in 1..Len(tasks) |-> [tasks[i] EXCEPT !.item_id = i]]

MaxItemId(tasks) == MaxOf({tasks[i].item_id : i \in 1..Len(tasks)})

TextsOf(tasks) == [i \in 1..Len(tasks) |-> tasks[i].text]

\* a rendering that keeps the done tasks
RenderAll(tasks) == [i \in 1..Len(tasks) |-> [id |-> tasks[i].item_id, text |-> tasks[i].text]]

\* rendering of a widget: the not-done tasks with their item ids
Render(tasks) ==
    LET nd == NotDone(tasks)
    IN [i \in 1..Len(nd) |-> [id |-> nd[i].item_id, text |-> nd[i].text]]

\* ---------------------------------------------------------------------------
\* State
\* ---------------------------------------------------------------------------
VARIABLES
    now,        \* UTC clock, minutes since the epoch (datetime.utcnow())
    rec,        \* the cached UserState object shared by all coroutines
    dicts,      \* heap of tag_checklists dict objects: dict id -> keys as object ids
    tco,        \* heap of TagChecklistState objects: object id -> fields
    db,         \* the row persisted by save_user_state
    msgs,       \* messages of the business chat: message id -> message
    reports,    \* day reports delivered to the user, in order
    archive,    \* records appended to the archive files, in order
    jobs,       \* armed run_once jobs of the JobQueue
    pc,         \* position of every coroutine
    loc,        \* local variables of every coroutine
    ops,        \* number of handlers and jobs that may still start
    trace,      \* history: one entry per call of close_day_for_user and
                \* start_new_day_for_user, with the record before and after
    events      \* history: tasks committed and pending workflows resolved

vars == <<now, rec, dicts, tco, db, msgs, reports, archive, jobs, pc, loc, ops,
          trace, events>>

Procs == {"timer", "sweep", "upd", "askip", "add1", "add2"}

\* positions at which a coroutine is suspended in a remote call
AwaitLabels ==
    {"c_send", "c_del_daily", "c_del_tag", "cc_send", "cc_del_dup", "uc_edit",
     "rb_send", "fw_del", "ft_del", "cn_del", "sf_send", "ti_send",
     "at_edit1", "at_send", "at_del_dup", "at_edit3",
     "tcmd_send", "tset_err", "tset_send"}

Suspended(p) == pc[p] \in AwaitLabels

Idle(p) == pc[p] = "idle"

\* a coroutine runs without interruption between two remote calls
CanRun(p) == \A q \in Procs \ {p} : Idle(q) \/ Suspended(q)

Quiet == \A q \in Procs : Idle(q) \/ Suspended(q)

AllIdle == \A p \in Procs : Idle(p)

World ==
    [now |-> now, rec |-> rec, dicts |-> dicts, tco |-> tco, db |-> db,
     msgs |-> msgs, reports |-> reports, archive |-> archive, jobs |-> jobs,
     trace |-> trace, events |-> events]

R(w, l, label) == [w |-> w, l |-> l, pc |-> label]

Commit(p, r) ==
    /\ now' = r.w.now
    /\ rec' = r.w.rec
    /\ dicts' = r.w.dicts
    /\ tco' = r.w.tco
    /\ db' = r.w.db
    /\ msgs' = r.w.msgs
    /\ reports' = r.w.reports
    /\ archive' = r.w.archive
    /\ jobs' = r.w.jobs
    /\ trace' = r.w.trace
    /\ events' = r.w.events
    /\ pc' = [pc EXCEPT ![p] = r.pc]
    /\ loc' = [loc EXCEPT ![p] = r.l]

\* ---------------------------------------------------------------------------
\* Heap of tag checklists (state.py TagChecklistState, UserState.tag_checklists)
\* ---------------------------------------------------------------------------
TagChecklistState(tag, mid, tasks) ==
    [tag |-> tag, checklist_message_id |-> mid, tasks |-> tasks]

CurDict(w) == w.dicts[w.rec.tag_checklists]

\* the dict as the program sees it: the tag states in insertion order
TagStates(w) == [i \in 1..Len(CurDict(w)) |-> w.tco[CurDict(w)[i]]]

TagPos(w, tag) ==
    LET S == {i \in 1..Len(CurDict(w)) : w.tco[CurDict(w)[i]].tag = tag}
    IN IF S = {} THEN 0 ELSE CHOOSE i \in S : TRUE

HasTag(w, tag) == TagPos(w, tag) # 0

TagObj(w, tag) == CurDict(w)[TagPos(w, tag)]

TagState(w, tag) == w.tco[TagObj(w, tag)]

\* user_state.tag_checklists[tag] = obj
PutTag(w, tag, o) ==
    IF HasTag(w, tag)
    THEN [w EXCEPT !.dicts[w.rec.tag_checklists][TagPos(w, tag)] = o]
    ELSE [w EXCEPT !.dicts[w.rec.tag_checklists] = Append(@, o)]

\* del user_state.tag_checklists[tag]
DelTag(w, tag) ==
    LET d == CurDict(w)
    IN [w EXCEPT !.dicts[w.rec.tag_checklists] =
            SelectSeqBy(d, [i \in 1..Len(d) |-> w.tco[d[i]].tag # tag])]

\* ---------------------------------------------------------------------------
\* state.py save_user_state with validate_and_clean_user_state
\* ---------------------------------------------------------------------------
validate_and_clean_user_state(w) ==
    LET live == Range(CurDict(w))
    IN [w EXCEPT
          !.rec.tasks = clean_tasks_list(@),
          !.tco = [o \in 1..Len(w.tco) |->
                     IF o \in live
                     THEN [w.tco[o] EXCEPT !.tasks = clean_tasks_list(@)]
                     ELSE w.tco[o]]]

DbRow(w) == [w.rec EXCEPT !.tag_checklists = TagStates(w)]

save_user_state(w) ==
    LET c == validate_and_clean_user_state(w)
    IN [c EXCEPT !.db = DbRow(c)]

\* ---------------------------------------------------------------------------
\* Dates (helpers_text.py get_user_local_date) and the platform
\* ---------------------------------------------------------------------------
DateOf(minutes) == minutes \div MinutesPerDay

get_user_local_date(w) == DateOf(w.now + w.rec.timezone_offset_minutes)

LocalMinutes(w) == (w.now + w.rec.timezone_offset_minutes) % MinutesPerDay

Alive(w, mid) == mid \in 1..Len(w.msgs) /\ w.msgs[mid].alive

\* delete_business_messages / safe_delete
Delete(w, mid) ==
    IF mid \in 1..Len(w.msgs) THEN [w EXCEPT !.msgs[mid].alive = FALSE] ELSE w

\* send_checklist / send_message: the new message gets the next message id
Send(w, kind, title, items) ==
    [w EXCEPT !.msgs = Append(@, [kind |-> kind, title |-> title,
                                  items |-> items, alive |-> TRUE])]

LastMid(w) == Len(w.msgs)

CanSend == Len(msgs) < MaxMsgs

\* local variables of a coroutine (one frame: nested calls are tail calls or
\* return to a single continuation)
NoReport == [date |-> NoDate, daily |-> <<>>, tags |-> <<>>, nothing |-> TRUE]

LocInit ==
    [cur |-> NoDate, closed_date |-> NoDate, report |-> NoReport,
     local_date |-> NoDate, mid |-> NoneId, items |-> <<>>, title |-> NoDate,
     itDict |-> 0, itLen |-> 0, itPos |-> 0, tag |-> NoTag, obj |-> 0,
     text |-> NoText, todel |-> <<>>, extra |-> NoneId, nid |-> 0, tok |-> 0,
     by |-> "", jobtok |-> 0, ctix |-> 0, otix |-> 0,
     cret |-> "idle", oret |-> "idle", kret |-> "idle", aret |-> "idle"]

\* ---------------------------------------------------------------------------
\* History of the calls (observation only, no effect on the program)
\* ---------------------------------------------------------------------------
Snap(w) == DbRow(w)

\* the history is kept only by the specifications that start with it switched on
NoHistory == <<[fn |-> "off"]>>

LogBegin(w, fn, passed) ==
    IF w.trace = NoHistory THEN w ELSE
    [w EXCEPT !.trace = Append(@,
        [fn |-> fn, cur |-> get_user_local_date(w), passed |-> passed,
         done |-> FALSE, pre |-> Snap(w), post |-> Snap(w),
         m0 |-> Len(w.msgs), m1 |-> Len(w.msgs),
         r0 |-> Len(w.reports), r1 |-> Len(w.reports),
         a0 |-> Len(w.archive), a1 |-> Len(w.archive)])]

LogEnd(w, k) ==
    IF w.trace = NoHistory THEN w ELSE
    [w EXCEPT !.trace[k] = [@ EXCEPT !.done = TRUE, !.post = Snap(w),
                                     !.m1 = Len(w.msgs), !.r1 = Len(w.reports),
                                     !.a1 = Len(w.archive)]]

\* return of close_day_for_user / start_new_day_for_user to the caller
CloseRet(w, l) == R(LogEnd(w, l.ctix), l, l.cret)

OpenRet(w, l) == R(LogEnd(w, l.otix), l, l.oret)

\* ---------------------------------------------------------------------------
\* helpers_daily.py generate_daily_report
\* ---------------------------------------------------------------------------
ReportTagSections(w) ==
    LET ts == TagStates(w)
        all == [i \in 1..Len(ts) |->
                  [tag |-> ts[i].tag, texts |-> TextsOf(Done(ts[i].tasks))]]
    IN SelectSeqBy(all, [i \in 1..Len(all) |-> all[i].texts # <<>>])

generate_daily_report(w, report_date) ==
    LET completed == Done(w.rec.tasks)
        shown == SelectSeqBy(completed,
                    [i \in 1..Len(completed) |-> completed[i].text # SmileText])
        tags == ReportTagSections(w)
    IN IF completed = <<>> /\ tags = <<>>
       THEN [date |-> report_date, daily |-> <<>>, tags |-> <<>>, nothing |-> TRUE]
       ELSE [date |-> report_date, daily |-> TextsOf(shown), tags |-> tags,
             nothing |-> FALSE]

\* ---------------------------------------------------------------------------
\* helpers_daily.py close_day_for_user
\* ---------------------------------------------------------------------------
\* lines 191-235: guards, date update, report, up to the report send
CloseEnter(w0, l0) ==
    LET cur == get_user_local_date(w0)
        passed == w0.rec.date # NoDate /\ w0.rec.last_closed_date # cur
        w == LogBegin(w0, "close", passed)
        l == [l0 EXCEPT !.ctix = Len(w.trace)]
    IN IF w.rec.date = NoDate THEN CloseRet(w, l)
       ELSE IF w.rec.last_closed_date = cur THEN CloseRet(w, l)
       ELSE LET closed == w.rec.date
                w1 == IF w.rec.date # cur
                      THEN save_user_state([w EXCEPT !.rec.date = cur])
                      ELSE w
            IN R(w1, [l EXCEPT !.cur = cur, !.closed_date = closed,
                               !.report = generate_daily_report(w1, closed)],
                 "c_send")

\* a close that does not record the closed date
ClosePartitionNoStamp(w, l) ==
    LET ts == TagStates(w)
        kept == SelectSeqBy(ts, [i \in 1..Len(ts) |-> NotDone(ts[i].tasks) # <<>>])
        fresh == [i \in 1..Len(kept) |->
                    TagChecklistState(kept[i].tag, NoneId,
                                      Renumber(NotDone(kept[i].tasks)))]
        base == Len(w.tco)
        w1 == [w EXCEPT
                 !.tco = @ \o fresh,
                 !.dicts = Append(@, [i \in 1..Len(kept) |-> base + i]),
                 !.rec.tasks = Renumber(NotDone(@)),
                 !.rec.tag_checklists = Len(w.dicts) + 1,
                 !.rec.checklist_message_id = NoneId]
    IN CloseRet(save_user_state(w1), l)

\* lines 283-347: partition, renumbering, reset of the references, guard field
ClosePartition(w, l) ==
    LET ts == TagStates(w)
        kept == SelectSeqBy(ts, [i \in 1..Len(ts) |-> NotDone(ts[i].tasks) # <<>>])
        fresh == [i \in 1..Len(kept) |->
                    TagChecklistState(kept[i].tag, NoneId,
                                      Renumber(NotDone(kept[i].tasks)))]
        base == Len(w.tco)
        w1 == [w EXCEPT
                 !.tco = @ \o fresh,
                 !.dicts = Append(@, [i \in 1..Len(kept) |-> base + i]),
                 !.rec.tasks = Renumber(NotDone(@)),
                 !.rec.tag_checklists = Len(w.dicts) + 1,
                 !.rec.checklist_message_id = NoneId,
                 !.rec.last_closed_date = l.cur]
    IN CloseRet(save_user_state(w1), l)

\* lines 273-281: next tag widget to delete; the dict iterator raises when the
\* dict it walks has changed size, which ends the close in its except branch
RECURSIVE FirstFrom(_, _, _)
FirstFrom(flags, pos, n) ==
    IF pos > n THEN 0 ELSE IF flags[pos] THEN pos ELSE FirstFrom(flags, pos + 1, n)

CloseTagNext(w, l) ==
    LET d == w.dicts[l.itDict]
        pos == FirstFrom([i \in 1..Len(d) |-> w.tco[d[i]].checklist_message_id # NoneId],
                         l.itPos, Len(d))
    IN IF Len(d) # l.itLen THEN CloseRet(w, l)
       ELSE IF pos = 0 THEN ClosePartition(w, l)
       ELSE R(w, [l EXCEPT !.mid = w.tco[d[pos]].checklist_message_id,
                           !.itPos = pos + 1], "c_del_tag")

CloseTagLoop(w, l) ==
    CloseTagNext(w, [l EXCEPT !.itDict = w.rec.tag_checklists,
                              !.itLen = Len(CurDict(w)), !.itPos = 1])

\* close_day_for_user if a failed report send ended the close
CloseAfterSendStops(w, l, delivered) ==
    LET entry == [cur |-> l.cur, date |-> l.closed_date, report |-> l.report]
        w1 == IF delivered THEN [w EXCEPT !.reports = Append(@, entry)] ELSE w
        w2 == [w1 EXCEPT !.archive = Append(@, entry)]
    IN IF ~delivered THEN CloseRet(w, l)
       ELSE IF w2.rec.checklist_message_id # NoneId
       THEN R(w2, [l EXCEPT !.mid = w2.rec.checklist_message_id], "c_del_daily")
       ELSE CloseTagLoop(w2, l)

\* lines 235-270: the report send returns (delivered or not), the archive
\* record is appended, the daily widget delete is issued
CloseAfterSend(w, l, delivered) ==
    LET entry == [cur |-> l.cur, date |-> l.closed_date, report |-> l.report]
        w1 == IF delivered THEN [w EXCEPT !.reports = Append(@, entry)] ELSE w
        w2 == [w1 EXCEPT !.archive = Append(@, entry)]
    IN IF w2.rec.checklist_message_id # NoneId
       THEN R(w2, [l EXCEPT !.mid = w2.rec.checklist_message_id], "c_del_daily")
       ELSE CloseTagLoop(w2, l)

CloseSend(p) ==
    /\ pc[p] = "c_send"
    /\ CanRun(p)
    /\ \E delivered \in BOOLEAN : Commit(p, CloseAfterSend(World, loc[p], delivered))
    /\ UNCHANGED ops

CloseDelDaily(p) ==
    /\ pc[p] = "c_del_daily"
    /\ CanRun(p)
    /\ Commit(p, CloseTagLoop(Delete(World, loc[p].mid), loc[p]))
    /\ UNCHANGED ops

CloseDelTag(p) ==
    /\ pc[p] = "c_del_tag"
    /\ CanRun(p)
    /\ Commit(p, CloseTagNext(Delete(World, loc[p].mid), loc[p]))
    /\ UNCHANGED ops

\* ---------------------------------------------------------------------------
\* helpers_checklist.py create_checklist_for_user / update_checklist_for_user
\* ---------------------------------------------------------------------------
\* create, lines 150-214: no daily widget is referenced
CcCreate(w, l) ==
    LET cud == IF w.rec.date # NoDate THEN w.rec.date ELSE get_user_local_date(w)
        w1 == IF w.rec.date # cud
              THEN save_user_state([w EXCEPT !.rec.date = cud]) ELSE w
        w2 == IF w1.rec.tasks = <<>>
              THEN save_user_state(
                     [w1 EXCEPT !.rec.tasks = <<TaskItem(1, SmileText, FALSE)>>])
              ELSE w1
        items == Render(w2.rec.tasks)
    IN IF items = <<>> THEN R(w2, l, l.kret)
       ELSE R(w2, [l EXCEPT !.items = items, !.title = cud], "cc_send")

\* update, lines 264-303: a daily widget is referenced, the edit is issued
UcEdit(w, l) ==
    R(w, [l EXCEPT !.items = Render(w.rec.tasks), !.title = get_user_local_date(w),
                   !.mid = w.rec.checklist_message_id], "uc_edit")

update_checklist_for_user(w, l) ==
    IF w.rec.checklist_message_id = NoneId THEN CcCreate(w, l) ELSE UcEdit(w, l)

\* a create that does not look at the daily widget the record refers to
CreateAlways(w, l) == CcCreate(w, l)

create_checklist_for_user(w, l) ==
    IF w.rec.checklist_message_id # NoneId
    THEN LET cur == get_user_local_date(w) IN
         IF w.rec.date # NoDate /\ w.rec.date # cur
         THEN UcEdit(save_user_state([w EXCEPT !.rec.date = cur]), l)
         ELSE R(w, l, l.kret)
    ELSE CcCreate(w, l)

\* create, lines 214-242: the widget exists remotely; final check on the record
CcSend(p) ==
    /\ pc[p] = "cc_send"
    /\ CanRun(p)
    /\ CanSend
    /\ LET w1 == Send(World, "daily", loc[p].title, loc[p].items)
           m == LastMid(w1)
       IN IF w1.rec.checklist_message_id # NoneId
          THEN Commit(p, R(w1, [loc[p] EXCEPT !.mid = m], "cc_del_dup"))
          ELSE Commit(p, R(save_user_state([w1 EXCEPT !.rec.checklist_message_id = m]),
                           loc[p], loc[p].kret))
    /\ UNCHANGED ops

\* create, lines 225-238: the duplicate is deleted, the kept widget re-rendered
CcDelDup(p) ==
    /\ pc[p] = "cc_del_dup"
    /\ CanRun(p)
    /\ Commit(p, update_checklist_for_user(
                    save_user_state(Delete(World, loc[p].mid)), loc[p]))
    /\ UNCHANGED ops

\* update, lines 298-312: the edit returns; a widget that no longer exists
\* drops the reference and creates a new one; an empty checklist is rejected
UcEditDone(p) ==
    /\ pc[p] = "uc_edit"
    /\ CanRun(p)
    /\ LET w == World
           l == loc[p]
       IN IF ~Alive(w, l.mid)
          THEN Commit(p, CcCreate([w EXCEPT !.rec.checklist_message_id = NoneId], l))
          ELSE IF l.items = <<>> THEN Commit(p, R(w, l, l.kret))
          ELSE Commit(p, R([w EXCEPT !.msgs[l.mid].items = l.items,
                                     !.msgs[l.mid].title = l.title], l, l.kret))
    /\ UNCHANGED ops

\* ---------------------------------------------------------------------------
\* helpers_checklist.py rebuild_tag_checklist_for_user,
\* helpers_daily.py start_new_day_for_user
\* ---------------------------------------------------------------------------
\* start_new_day_for_user, lines 542-582
OpenEnter(w0, l0) ==
    LET w == LogBegin(w0, "open", TRUE)
        l == [l0 EXCEPT !.otix = Len(w.trace)]
        today == get_user_local_date(w)
        w1 == save_user_state([w EXCEPT !.rec.date = today,
                                        !.rec.last_opened_date = today])
        w2 == IF w1.rec.tasks = <<>>
              THEN save_user_state(
                     [w1 EXCEPT !.rec.tasks = <<TaskItem(1, SmileText, FALSE)>>])
              ELSE w1
    IN create_checklist_for_user(w2, [l EXCEPT !.kret = "o_created"])

\* lines 586-590 with rebuild_tag_checklist_for_user lines 548-585: the next
\* tag with tasks is rebuilt from the record's current entry for that tag
RECURSIVE OpenTagNext(_, _)
OpenTagNext(w, l) ==
    LET d == w.dicts[l.itDict]
        pos == FirstFrom([i \in 1..Len(d) |-> w.tco[d[i]].tasks # <<>>],
                         l.itPos, Len(d))
    IN IF Len(d) # l.itLen THEN OpenRet(w, l)
       ELSE IF pos = 0 THEN OpenRet(w, l)
       ELSE LET tag == w.tco[d[pos]].tag
                l1 == [l EXCEPT !.itPos = pos + 1, !.tag = tag]
            IN IF ~HasTag(w, tag) \/ TagState(w, tag).tasks = <<>>
               THEN OpenTagNext(w, l1)
               ELSE R(w, [l1 EXCEPT !.obj = TagObj(w, tag),
                                    !.items = Render(TagState(w, tag).tasks)],
                      "rb_send")

OpenCreated(p) ==
    /\ pc[p] = "o_created"
    /\ CanRun(p)
    /\ Commit(p, OpenTagNext(World, [loc[p] EXCEPT !.itDict = rec.tag_checklists,
                                                   !.itLen = Len(CurDict(World)),
                                                   !.itPos = 1]))
    /\ UNCHANGED ops

\* rebuild_tag_checklist_for_user lines 586-605: a new widget is always sent
\* (an empty checklist is rejected by the platform and the rebuild gives up)
RbSend(p) ==
    /\ pc[p] = "rb_send"
    /\ CanRun(p)
    /\ CanSend
    /\ LET l == loc[p]
           w1 == Send(World, "tag", l.tag, l.items)
           w2 == PutTag([w1 EXCEPT !.tco[l.obj].checklist_message_id = LastMid(w1)],
                        l.tag, l.obj)
       IN IF l.items = <<>> THEN Commit(p, OpenTagNext(World, l))
          ELSE Commit(p, OpenTagNext(save_user_state(w2), l))
    /\ UNCHANGED ops

\* ---------------------------------------------------------------------------
\* helpers_daily.py: midnight timer
\* ---------------------------------------------------------------------------
Finish(w) == R(w, LocInit, "idle")

calc_minutes_until_midnight_from_user_time(w) ==
    LET current == IF w.rec.time # NoTime THEN w.rec.time ELSE LocalMinutes(w)
        m == (MinutesPerDay - current) % MinutesPerDay
    IN IF m = 0 THEN MinutesPerDay ELSE m

Job(name, at, tok) == [name |-> name, at |-> at, tok |-> tok]

RemoveJobs(js, name) == SelectSeqBy(js, [i \in 1..Len(js) |-> js[i].name # name])

RemoveAt(js, k) == SelectSeqBy(js, [i \in 1..Len(js) |-> i # k])

schedule_user_midnight_job(w) ==
    LET js == IF w.rec.next_rollover_job_name # NoJob
              THEN RemoveJobs(w.jobs, w.rec.next_rollover_job_name) ELSE w.jobs
        at == w.now + calc_minutes_until_midnight_from_user_time(w)
    IN save_user_state([w EXCEPT !.jobs = Append(js, Job(MidnightName, at, 0)),
                                 !.rec.next_rollover_job_name = MidnightName])

\* handle_user_midnight lines 606-659: the job fires
handle_user_midnight(w, l) ==
    LET cur == get_user_local_date(w) IN
    IF w.rec.last_closed_date = cur THEN Finish(schedule_user_midnight_job(w))
    ELSE CloseEnter(w, [l EXCEPT !.local_date = cur, !.cret = "tm_closed"])

TimerFire ==
    /\ Idle("timer")
    /\ Quiet
    /\ ops > 0
    /\ \E k \in 1..Len(jobs) :
         /\ jobs[k].name = MidnightName
         /\ jobs[k].at <= now
         /\ Commit("timer", handle_user_midnight(
                              [World EXCEPT !.jobs = RemoveAt(jobs, k)], LocInit))
    /\ ops' = ops - 1

\* lines 661-687: after the close
TimerClosed ==
    /\ pc["timer"] = "tm_closed"
    /\ LET w == World
           l == loc["timer"]
       IN IF w.rec.last_closed_date = NoDate THEN Commit("timer", Finish(w))
          ELSE IF w.rec.last_opened_date = w.rec.last_closed_date + 1
          THEN Commit("timer", Finish(schedule_user_midnight_job(w)))
          ELSE Commit("timer", OpenEnter(w, [l EXCEPT !.oret = "tm_opened"]))
    /\ UNCHANGED ops

\* lines 689-716: after the open, the next firing is armed 24 hours ahead
TimerOpened ==
    /\ pc["timer"] = "tm_opened"
    /\ LET w == World
           js == Append(w.jobs, Job(MidnightName, w.now + MinutesPerDay, 0))
       IN Commit("timer", Finish(save_user_state(
              [w EXCEPT !.jobs = js, !.rec.next_rollover_job_name = MidnightName])))
    /\ UNCHANGED ops

\* ---------------------------------------------------------------------------
\* main.py check_day_rollover: the periodic sweep
\* ---------------------------------------------------------------------------
check_day_rollover(w, l) ==
    LET local_date == get_user_local_date(w)
        local_time == LocalMinutes(w)
        should_close ==
            IF w.rec.last_closed_date # NoDate
            THEN \/ local_date > w.rec.last_closed_date
                 \/ (local_date = w.rec.last_closed_date
                       /\ local_time >= w.rec.day_end_time)
            ELSE local_time >= w.rec.day_end_time
    IN IF w.rec.day_end_time = NoTime THEN Finish(w)
       ELSE IF ~should_close THEN Finish(w)
       ELSE IF w.rec.last_closed_date = local_date THEN Finish(w)
       ELSE CloseEnter(w, [l EXCEPT !.local_date = local_date, !.cret = "sw_closed"])

SweepFire ==
    /\ Idle("sweep")
    /\ Quiet
    /\ ops > 0
    /\ Commit("sweep", check_day_rollover(World, LocInit))
    /\ ops' = ops - 1

SweepClosed ==
    /\ pc["sweep"] = "sw_closed"
    /\ IF rec.last_closed_date = loc["sweep"].local_date
       THEN Commit("sweep", OpenEnter(World, [loc["sweep"] EXCEPT !.oret = "sw_opened"]))
       ELSE Commit("sweep", Finish(World))
    /\ UNCHANGED ops

SweepOpened ==
    /\ pc["sweep"] = "sw_opened"
    /\ Commit("sweep", Finish(World))
    /\ UNCHANGED ops

\* ---------------------------------------------------------------------------
\* main.py handle_force_close / handle_force_newday (update handler)
\* ---------------------------------------------------------------------------
handle_force_close ==
    /\ Idle("upd")
    /\ Quiet
    /\ ops > 0
    /\ IF rec.date = NoDate THEN Commit("upd", Finish(World))
       ELSE Commit("upd", CloseEnter(World, [LocInit EXCEPT !.cret = "fc_closed"]))
    /\ ops' = ops - 1

ForceCloseDone ==
    /\ pc["upd"] = "fc_closed"
    /\ Commit("upd", Finish(World))
    /\ UNCHANGED ops

handle_force_newday ==
    /\ Idle("upd")
    /\ Quiet
    /\ ops > 0
    /\ Commit("upd", OpenEnter(World, [LocInit EXCEPT !.oret = "fn_opened"]))
    /\ ops' = ops - 1

ForceNewdayDone ==
    /\ pc["upd"] = "fn_opened"
    /\ Commit("upd", Finish(World))
    /\ UNCHANGED ops

\* ---------------------------------------------------------------------------
\* helpers_checklist.py add_task_to_tag_checklist
\* ---------------------------------------------------------------------------
\* history entry: a task entered a list ("commit", into = the tag, NoTag for
\* the daily list) or the pending fields of a pending task were cleared
LogEvent(w, ev, l, into) ==
    IF w.events = NoHistory THEN w ELSE
    [w EXCEPT !.events = Append(@, [ev |-> ev, tok |-> l.tok, into |-> into,
                                    text |-> l.text, by |-> l.by,
                                    jobtok |-> l.jobtok])]

\* tag_state.tasks.append(TaskItem(max + 1, task_text)); save_user_state(...)
AppendToTag(w, l) ==
    LET o == TagObj(w, l.tag)
        before == Len(w.tco[o].tasks)
        w1 == save_user_state(
                [w EXCEPT !.tco[o].tasks =
                    Append(@, TaskItem(MaxItemId(@) + 1, l.text, FALSE))])
    IN IF Len(w1.tco[o].tasks) > before THEN LogEvent(w1, "commit", l, l.tag) ELSE w1

\* edit_message_checklist: the platform refuses a missing message id and an
\* empty checklist, and reports a deleted message as not found
EditOutcome(w, mid, items) ==
    IF mid = NoneId THEN "error"
    ELSE IF ~Alive(w, mid) THEN "gone"
    ELSE IF items = <<>> THEN "error"
    ELSE "ok"

EditMsg(w, mid, items) == [w EXCEPT !.msgs[mid].items = items]

AtReturn(w, l) == R(w, l, l.aret)

\* lines 483-529: the tag has an entry; append unless the text is there, edit
AtBlock3(w, l) ==
    IF ~HasTag(w, l.tag) THEN AtReturn(w, l)
    ELSE LET ts == TagState(w, l.tag).tasks
             task_already_exists == \E i \in 1..Len(ts) : ts[i].text = l.text
             w1 == IF task_already_exists THEN w ELSE AppendToTag(w, l)
             st == TagState(w1, l.tag)
         IN R(w1, [l EXCEPT !.items = Render(st.tasks),
                            !.mid = st.checklist_message_id], "at_edit3")

\* lines 391-443: the tag has no entry; the first item id is one more than the
\* largest item id of all tag checklists, and the widget is sent
AtBlock2(w, l) ==
    LET ts == TagStates(w)
        all_tag_task_ids == UNION {{ts[i].tasks[j].item_id : j \in 1..Len(ts[i].tasks)} :
                                     i \in 1..Len(ts)}
    IN R(w, [l EXCEPT !.nid = MaxOf(all_tag_task_ids) + 1], "at_send")

AtAfterBlock1(w, l) == IF ~HasTag(w, l.tag) THEN AtBlock2(w, l) ELSE AtBlock3(w, l)

\* lines 345-357: the rendering loop assigns every rendered text to task_text
LastText(items, dflt) == IF items = <<>> THEN dflt ELSE items[Len(items)].text

\* lines 332-375: entry, up to the first edit
add_task_to_tag_checklist(w, l) ==
    IF HasTag(w, l.tag)
    THEN LET w1 == AppendToTag(w, l)
             st == TagState(w1, l.tag)
             items == Render(st.tasks)
         IN R(w1, [l EXCEPT !.items = items, !.mid = st.checklist_message_id,
                            !.text = LastText(items, l.text)], "at_edit1")
    ELSE AtBlock2(w, l)

\* lines 376-387: the first edit returns
AtEdit1(p) ==
    /\ pc[p] = "at_edit1"
    /\ CanRun(p)
    /\ LET w == World
           l == loc[p]
           out == EditOutcome(w, l.mid, l.items)
       IN IF out = "ok" THEN Commit(p, AtAfterBlock1(EditMsg(w, l.mid, l.items), l))
          ELSE IF out = "gone" /\ HasTag(w, l.tag)
          THEN Commit(p, AtAfterBlock1(DelTag(w, l.tag), l))
          ELSE Commit(p, AtReturn(w, l))
    /\ UNCHANGED ops

\* a creation without the final check
AtAfterSendNoFinalCheck(w, l) ==
    LET st == TagChecklistState(l.tag, l.mid, <<TaskItem(l.nid, l.text, FALSE)>>)
        w1 == PutTag([w EXCEPT !.tco = Append(@, st)], l.tag, Len(w.tco) + 1)
    IN AtReturn(LogEvent(save_user_state(w1), "commit", l, l.tag), l)

\* lines 446-480: final check after the widget was created remotely
AtAfterSend(w, l) ==
    IF HasTag(w, l.tag) THEN R(w, l, "at_del_dup")
    ELSE LET st == TagChecklistState(l.tag, l.mid, <<TaskItem(l.nid, l.text, FALSE)>>)
             w1 == PutTag([w EXCEPT !.tco = Append(@, st)], l.tag, Len(w.tco) + 1)
         IN AtReturn(LogEvent(save_user_state(w1), "commit", l, l.tag), l)

AtSend(p) ==
    /\ pc[p] = "at_send"
    /\ CanRun(p)
    /\ CanSend
    /\ LET l == loc[p]
           w1 == Send(World, "tag", l.tag, <<[id |-> l.nid, text |-> l.text]>>)
       IN Commit(p, AtAfterSend(w1, [l EXCEPT !.mid = LastMid(w1)]))
    /\ UNCHANGED ops

\* lines 454-467: the own duplicate is deleted, the task joins the kept entry
AtDelDup(p) ==
    /\ pc[p] = "at_del_dup"
    /\ CanRun(p)
    /\ LET w == Delete(World, loc[p].mid)
           l == loc[p]
       IN IF ~HasTag(w, l.tag) THEN Commit(p, AtReturn(w, l))
          ELSE Commit(p, AtBlock3(AppendToTag(w, l), l))
    /\ UNCHANGED ops

\* lines 530-542: the last edit returns; a widget that no longer exists drops
\* the entry and the function calls itself
AtEdit3(p) ==
    /\ pc[p] = "at_edit3"
    /\ CanRun(p)
    /\ LET w == World
           l == loc[p]
           out == EditOutcome(w, l.mid, l.items)
       IN IF out = "ok" THEN Commit(p, AtReturn(EditMsg(w, l.mid, l.items), l))
          ELSE IF out = "gone" /\ HasTag(w, l.tag)
          THEN Commit(p, add_task_to_tag_checklist(DelTag(w, l.tag), l))
          ELSE Commit(p, AtReturn(w, l))
    /\ UNCHANGED ops

\* ---------------------------------------------------------------------------
\* helpers_text.py normalize_tag, helpers_tags.py build_tags_keyboard
\* ---------------------------------------------------------------------------
normalize_tag(raw) ==
    LET s == Strip(raw)
        body == IF s # <<>> /\ Head(s) = "#" THEN Strip(Tail(s)) ELSE s
    IN IF body = <<>> THEN NoTag
       ELSE <<"#">> \o [i \in 1..Len(body) |->
                          IF body[i] = " " THEN "_" ELSE LowerChar(body[i])]

TAGS_PER_PAGE == 3

\* helpers_checklist.py get_checklist_title_from_date: "#" and the day, month
\* and weekday of the date
get_checklist_title_from_date(date) == <<"#", ToString(date)>>

\* the buttons of page 0: the title of the daily checklist, then the active
\* tags, then the rest of the history
build_tags_keyboard(w) ==
    LET daily_title == get_checklist_title_from_date(get_user_local_date(w))
        active == [i \in 1..Len(TagStates(w)) |-> TagStates(w)[i].tag]
        h == w.rec.tags_history
        history_tags == SelectSeqBy(h, [i \in 1..Len(h) |-> h[i] \notin Range(active)])
        all_tags == active \o history_tags
        start == w.rec.tags_page_index * TAGS_PER_PAGE
    IN <<daily_title>> \o
       SubSeq(all_tags, start + 1,
              IF start + TAGS_PER_PAGE < Len(all_tags)
              THEN start + TAGS_PER_PAGE ELSE Len(all_tags))

\* ---------------------------------------------------------------------------
\* helpers_pending.py
\* ---------------------------------------------------------------------------
cancel_pending_confirm_job(w) ==
    IF w.rec.pending_confirm_job_id # NoJob
    THEN [w EXCEPT !.jobs = RemoveJobs(@, w.rec.pending_confirm_job_id),
                   !.rec.pending_confirm_job_id = NoJob]
    ELSE w

MessagesToDelete(w, additional) ==
    LET own == IF w.rec.pending_task_message_id # NoneId
               THEN <<w.rec.pending_task_message_id>> ELSE <<>>
        ids == own \o w.rec.pending_service_message_ids
    IN IF additional # NoneId /\ additional \notin Range(ids)
       THEN Append(ids, additional) ELSE ids

DeleteAll(w, ids) ==
    [w EXCEPT !.msgs = [m \in 1..Len(w.msgs) |->
                          IF m \in Range(ids) THEN [w.msgs[m] EXCEPT !.alive = FALSE]
                          ELSE w.msgs[m]]]

\* the pending fields are cleared and the record saved
ClearPending(w, l) ==
    LET w1 == IF w.rec.pending_task_text # NoText
              THEN LogEvent(w, "resolve", l, NoTag) ELSE w
    IN save_user_state([w1 EXCEPT !.rec.pending_task_text = NoText,
                                  !.rec.pending_task_message_id = NoneId,
                                  !.rec.pending_service_message_ids = <<>>,
                                  !.rec.awaiting_tag = FALSE,
                                  !.rec.pending_confirm_job_id = NoJob])

\* the deletion loop of the finalizers and of the cancel
DeleteThenClear(w, l, additional, label) ==
    LET todel == MessagesToDelete(w, additional)
    IN IF todel = <<>> THEN Finish(ClearPending(w, l))
       ELSE R(w, [l EXCEPT !.todel = todel], label)

\* finalize_task_without_tag lines 44-56
finalize_task_without_tag(w, l) ==
    IF w.rec.pending_task_text = NoText THEN Finish(w)
    ELSE LET l1 == [l EXCEPT !.tok = w.rec.pending_task_message_id,
                             !.kret = "fw_updated"]
             before == Len(w.rec.tasks)
             w1 == save_user_state(
                     [w EXCEPT !.rec.tasks =
                         Append(@, TaskItem(MaxItemId(@) + 1,
                                            w.rec.pending_task_text, FALSE))])
             w2 == IF Len(w1.rec.tasks) > before
                   THEN LogEvent(w1, "commit", l1, NoTag) ELSE w1
         IN update_checklist_for_user(w2, l1)

\* lines 57-67
FwUpdated(p) ==
    /\ pc[p] = "fw_updated"
    /\ Commit(p, DeleteThenClear(save_user_state(World), loc[p], NoneId, "fw_del"))
    /\ UNCHANGED ops

\* lines 69-78
FwDel(p) ==
    /\ pc[p] = "fw_del"
    /\ CanRun(p)
    /\ Commit(p, Finish(ClearPending(DeleteAll(World, loc[p].todel), loc[p])))
    /\ UNCHANGED ops

\* finalize_task_with_tag lines 121-134
finalize_task_with_tag(w, l) ==
    IF w.rec.pending_task_text = NoText THEN Finish(w)
    ELSE add_task_to_tag_checklist(w,
            [l EXCEPT !.text = w.rec.pending_task_text,
                      !.tok = w.rec.pending_task_message_id, !.aret = "ft_added"])

\* lines 140-145
FtAdded(p) ==
    /\ pc[p] = "ft_added"
    /\ Commit(p, DeleteThenClear(World, loc[p], loc[p].extra, "ft_del"))
    /\ UNCHANGED ops

\* lines 147-156
FtDel(p) ==
    /\ pc[p] = "ft_del"
    /\ CanRun(p)
    /\ Commit(p, Finish(ClearPending(DeleteAll(World, loc[p].todel), loc[p])))
    /\ UNCHANGED ops

\* cancel_pending_task lines 88-96
cancel_pending_task(w, l) ==
    DeleteThenClear(cancel_pending_confirm_job(w),
                    [l EXCEPT !.tok = w.rec.pending_task_message_id, !.by = "cancel"],
                    NoneId, "cn_del")

\* lines 98-107
CnDel(p) ==
    /\ pc[p] = "cn_del"
    /\ CanRun(p)
    /\ Commit(p, Finish(ClearPending(DeleteAll(World, loc[p].todel), loc[p])))
    /\ UNCHANGED ops

\* auto_skip_pending_task lines 177-200
auto_skip_pending_task(w, l) ==
    IF w.rec.pending_task_text = NoText THEN Finish(w)
    ELSE finalize_task_without_tag(w, l)

\* the job queue runs an armed auto-skip job once its delay has elapsed
AutoSkipFireFrom(w) ==
    /\ Idle("askip")
    /\ Quiet
    /\ \E k \in 1..Len(jobs) :
         /\ jobs[k].name = AutoSkipName
         /\ Commit("askip", auto_skip_pending_task(
                              [w EXCEPT !.jobs = RemoveAt(jobs, k)],
                              [LocInit EXCEPT !.by = "timeout", !.jobtok = jobs[k].tok]))
    /\ UNCHANGED ops

AutoSkipFire == AutoSkipFireFrom(World)

\* helpers_pending.py line 386: the history keeps the 30 most recent tags
TagsHistoryCap == 30

\* list.remove: drops the first element equal to x
RECURSIVE RemoveFirst(_, _)
RemoveFirst(s, x) ==
    IF s = <<>> THEN <<>>
    ELSE IF Head(s) = x THEN Tail(s)
         ELSE <<Head(s)>> \o RemoveFirst(Tail(s), x)

\* the history update without the removal of the old entry
RaiseTagKeepsOld(h, tag) ==
    LET ins == <<tag>> \o h
    IN IF Len(ins) > TagsHistoryCap THEN SubSeq(ins, 1, TagsHistoryCap) ELSE ins

\* helpers_pending.py lines 381-387 and 405-410: raise the tag in the history
RaiseTagInHistory(h, tag) ==
    LET rem == IF tag \in Range(h) THEN RemoveFirst(h, tag) ELSE h
        ins == <<tag>> \o rem
    IN IF Len(ins) > TagsHistoryCap THEN SubSeq(ins, 1, TagsHistoryCap) ELSE ins

\* handle_tag_input lines 359-391: msg is the id of the user's message
handle_tag_input(w, l, text, msg) ==
    LET tag == normalize_tag(Strip(text))
        moved == RaiseTagInHistory(w.rec.tags_history, tag)
    IN IF tag = NoTag THEN R(w, [l EXCEPT !.extra = msg], "ti_send")
       ELSE finalize_task_with_tag([w EXCEPT !.rec.tags_history = moved],
                                   [l EXCEPT !.tag = tag, !.extra = msg, !.by = "typed"])

\* lines 371-379: the re-prompt was sent
TiSend(p) ==
    /\ pc[p] = "ti_send"
    /\ CanRun(p)
    /\ CanSend
    /\ LET w1 == Send(World, "service", NoTag, <<>>)
           w2 == [w1 EXCEPT !.rec.pending_service_message_ids =
                               @ \o <<LastMid(w1), loc[p].extra>>]
       IN Commit(p, Finish(save_user_state(w2)))
    /\ UNCHANGED ops

\* handle_task_addition lines 205-253
handle_task_addition(w, l, text, msg) ==
    IF w.rec.awaiting_tag THEN Finish(w)
    ELSE LET w1 == IF w.rec.pending_task_text # NoText
                   THEN LET c == cancel_pending_confirm_job(w)
                        IN [DeleteAll(c, MessagesToDelete(c, NoneId))
                              EXCEPT !.rec.pending_service_message_ids = <<>>]
                   ELSE w
         IN create_checklist_for_user(w1, [l EXCEPT !.text = text, !.extra = msg,
                                                   !.kret = "cp_created"])

\* lines 256-275 and start_tag_flow_for_pending_task lines 302-312
CpCreated(p) ==
    /\ pc[p] = "cp_created"
    /\ LET l == loc[p]
           w1 == [World EXCEPT !.rec.pending_task_text = Strip(l.text),
                               !.rec.pending_task_message_id = l.extra,
                               !.rec.tags_page_index = 0,
                               !.rec.pending_service_message_ids = <<>>]
       IN IF w1.rec.pending_task_text = NoText THEN Commit(p, Finish(w1))
          ELSE Commit(p, R([w1 EXCEPT !.rec.awaiting_tag = TRUE],
                           [l EXCEPT !.tok = l.extra,
                                     !.items = build_tags_keyboard(w1)], "sf_send"))
    /\ UNCHANGED ops

\* start_tag_flow_for_pending_task lines 312-338: the prompt was sent and the
\* auto-skip job is armed, or the send raised and nothing more is done
SfSend(p) ==
    /\ pc[p] = "sf_send"
    /\ CanRun(p)
    /\ CanSend
    /\ \E sent \in BOOLEAN :
         LET l == loc[p]
             w1 == Send(World, "prompt", NoTag, l.items)
             w2 == [w1 EXCEPT
                      !.rec.pending_service_message_ids = Append(@, LastMid(w1)),
                      !.jobs = Append(@, Job(AutoSkipName,
                                             w1.now + AUTO_SKIP_TIMEOUT \div 60, l.tok)),
                      !.rec.pending_confirm_job_id = AutoSkipName]
         IN IF sent THEN Commit(p, Finish(save_user_state(w2)))
            ELSE Commit(p, Finish(World))
    /\ UNCHANGED ops

\* main.py handle_all_updates lines 595-729 for a text message of the user
handle_all_updates(w0, l, text) ==
    LET w == Send(w0, "user", NoTag, text)
        msg == LastMid(w)
        cur == get_user_local_date(w)
        w1 == IF w.rec.checklist_message_id # NoneId /\ w.rec.date # cur
              THEN save_user_state([w EXCEPT !.rec.date = cur]) ELSE w
    IN IF w1.rec.awaiting_tag /\ w1.rec.pending_task_text # NoText
       THEN handle_tag_input(w1, l, text, msg)
       ELSE handle_task_addition(w1, l, text, msg)

UserTexts == {<<"a">>, <<"b">>, <<"#">>}

BusinessTextFrom(w) ==
    /\ Idle("upd")
    /\ Quiet
    /\ CanSend
    /\ ops > 0
    /\ \E text \in UserTexts : Commit("upd", handle_all_updates(w, LocInit, text))
    /\ ops' = ops - 1

BusinessText == BusinessTextFrom(World)

\* main.py handle_callback_query lines 523-555: a button of a prompt that is
\* still in the chat is pressed
PromptAlive(m) == m \in 1..Len(msgs) /\ msgs[m].kind = "prompt" /\ msgs[m].alive

\* a selection that takes the title of the daily checklist for the daily list
handle_tag_select_daily(w, l, tag) ==
    IF w.rec.pending_task_text = NoText THEN Finish(w)
    ELSE LET c == cancel_pending_confirm_job(w)
             moved == RaiseTagInHistory(c.rec.tags_history, tag)
         IN IF tag = get_checklist_title_from_date(get_user_local_date(c))
            THEN finalize_task_without_tag(c, [l EXCEPT !.by = "selected"])
            ELSE finalize_task_with_tag([c EXCEPT !.rec.tags_history = moved],
                                        [l EXCEPT !.tag = tag, !.by = "selected"])

\* helpers_pending.py handle_tag_select_callback lines 396-413
handle_tag_select_callback(w, l, tag) ==
    IF w.rec.pending_task_text = NoText THEN Finish(w)
    ELSE LET c == cancel_pending_confirm_job(w)
             moved == RaiseTagInHistory(c.rec.tags_history, tag)
         IN finalize_task_with_tag([c EXCEPT !.rec.tags_history = moved],
                                   [l EXCEPT !.tag = tag, !.by = "selected"])

TagSelectFrom(w) ==
    /\ Idle("upd")
    /\ Quiet
    /\ ops > 0
    /\ \E m \in 1..Len(msgs) : \E tag \in Tags :
         /\ PromptAlive(m)
         /\ tag \in Range(msgs[m].items)
         /\ Commit("upd", handle_tag_select_callback(w, LocInit, tag))
    /\ ops' = ops - 1

TagSelect == TagSelectFrom(World)

\* the first button of a prompt that is still in the chat is pressed: it
\* carries the title of the daily checklist
DailyTitleSelectFrom(w) ==
    /\ Idle("upd")
    /\ Quiet
    /\ ops > 0
    /\ \E m \in 1..Len(msgs) :
         /\ PromptAlive(m)
         /\ msgs[m].items # <<>>
         /\ Commit("upd", handle_tag_select_callback(w, LocInit, msgs[m].items[1]))
    /\ ops' = ops - 1

\* helpers_pending.py handle_task_skip_callback lines 280-292
handle_task_skip_callback(w, l) ==
    IF w.rec.pending_task_text = NoText THEN Finish(w)
    ELSE finalize_task_without_tag(cancel_pending_confirm_job(w),
                                   [l EXCEPT !.by = "skip"])

TaskSkipFrom(w) ==
    /\ Idle("upd")
    /\ Quiet
    /\ ops > 0
    /\ \E m \in 1..Len(msgs) : PromptAlive(m)
    /\ Commit("upd", handle_task_skip_callback(w, LocInit))
    /\ ops' = ops - 1

TaskSkip == TaskSkipFrom(World)

TaskDeleteFrom(w) ==
    /\ Idle("upd")
    /\ Quiet
    /\ ops > 0
    /\ \E m \in 1..Len(msgs) : PromptAlive(m)
    /\ Commit("upd", cancel_pending_task(w, LocInit))
    /\ ops' = ops - 1

TaskDelete == TaskDeleteFrom(World)

\* ---------------------------------------------------------------------------
\* Process restart: the job queue is empty, the record is read from the
\* database (state.py load_user_state), main.py setup_jobs_post_init re-arms
\* the midnight job only
\* ---------------------------------------------------------------------------
load_user_state(w) ==
    LET tl == w.db.tag_checklists
        base == Len(w.tco)
    IN [w EXCEPT !.tco = @ \o tl,
                 !.dicts = Append(@, [i \in 1..Len(tl) |-> base + i]),
                 !.rec = [w.db EXCEPT !.tag_checklists = Len(w.dicts) + 1]]

setup_jobs_post_init(w) ==
    IF w.rec.time # NoTime THEN schedule_user_midnight_job(w) ELSE w

Restart ==
    /\ AllIdle
    /\ ops > 0
    /\ Commit("upd", Finish(setup_jobs_post_init(
                               load_user_state([World EXCEPT !.jobs = <<>>]))))
    /\ ops' = ops - 1

\* ---------------------------------------------------------------------------
\* helpers_checklist.py: checklist events (a task ticked or unticked in a widget)
\* ---------------------------------------------------------------------------
\* normalize: " ".join(text.lower().strip().split())
RECURSIVE CollapseSpaces(_)
CollapseSpaces(t) ==
    IF Len(t) < 2 THEN t
    ELSE IF t[1] = " " /\ t[2] = " " THEN CollapseSpaces(Tail(t))
    ELSE <<t[1]>> \o CollapseSpaces(Tail(t))

\* a comparison of the texts as they are stored
NormalizeNot(text) == text

normalize(text) == CollapseSpaces(Strip(Lower(text)))

\* a sync that also stores the normalized text in the tasks it matches
SyncListRetext(tasks, key, status) ==
    [i \in 1..Len(tasks) |->
        IF normalize(tasks[i].text) = key
        THEN [tasks[i] EXCEPT !.done = status, !.text = key] ELSE tasks[i]]

\* the tasks of a list whose normalized text is key get the status
SyncList(tasks, key, status) ==
    [i \in 1..Len(tasks) |->
        IF normalize(tasks[i].text) = key
        THEN [tasks[i] EXCEPT !.done = status] ELSE tasks[i]]

\* the checklist the handler works on: the daily one or a tag
DailyList == <<"daily">>

TasksOf(w, target) ==
    IF target = DailyList THEN w.rec.tasks ELSE TagState(w, target).tasks

SetDone(w, target, i, status) ==
    IF target = DailyList THEN [w EXCEPT !.rec.tasks[i].done = status]
    ELSE [w EXCEPT !.tco[TagObj(w, target)].tasks[i].done = status]

\* state of the handler: the world and its local flag `updated`
Upd(w, updated) == [w |-> w, updated |-> updated]

sync_task_status_by_text(w, task_text, new_done_status) ==
    LET key == normalize(task_text)
        live == Range(CurDict(w))
        w1 == [w EXCEPT
                 !.rec.tasks = SyncList(@, key, new_done_status),
                 !.tco = [o \in 1..Len(w.tco) |->
                            IF o \in live
                            THEN [w.tco[o] EXCEPT
                                    !.tasks = SyncList(@, key, new_done_status)]
                            ELSE w.tco[o]]]
    IN IF key = <<>> THEN Upd(w, FALSE) ELSE Upd(w1, w1 # w)

\* lines 1015-1059: one task of the loop over the target's tasks
MarkInLoop(u, target, i, done_ids, not_done_ids) ==
    LET t == TasksOf(u.w, target)[i]
        s1 == sync_task_status_by_text(SetDone(u.w, target, i, TRUE), t.text, TRUE)
        u1 == IF t.item_id \in done_ids /\ ~t.done THEN Upd(s1.w, TRUE) ELSE u
        t1 == TasksOf(u1.w, target)[i]
        s2 == sync_task_status_by_text(SetDone(u1.w, target, i, FALSE), t1.text, FALSE)
    IN IF t1.item_id \in not_done_ids /\ t1.done THEN Upd(s2.w, TRUE) ELSE u1

\* a loop that goes on to look the ids up in the daily list as well
RECURSIVE MarkLoopAlsoDaily(_, _, _, _, _)
MarkLoopAlsoDaily(u, target, i, done_ids, not_done_ids) ==
    IF i > Len(TasksOf(u.w, target))
    THEN IF target = DailyList THEN u
         ELSE MarkLoopAlsoDaily(u, DailyList, 1, done_ids, not_done_ids)
    ELSE MarkLoopAlsoDaily(MarkInLoop(u, target, i, done_ids, not_done_ids),
                           target, i + 1, done_ids, not_done_ids)

RECURSIVE MarkLoop(_, _, _, _, _)
MarkLoop(u, target, i, done_ids, not_done_ids) ==
    IF i > Len(TasksOf(u.w, target)) THEN u
    ELSE MarkLoop(MarkInLoop(u, target, i, done_ids, not_done_ids),
                  target, i + 1, done_ids, not_done_ids)

\* lines 927-1014: the checklist was found by item id; the first
\* task of the target with the id gets the status, then the sync runs
MarkById(u, target, item_id, status) ==
    LET tasks == TasksOf(u.w, target)
        S == {i \in 1..Len(tasks) : tasks[i].item_id = item_id}
        i == CHOOSE j \in S : \A k \in S : j <= k
        changed == tasks[i].done # status
        w1 == IF changed THEN SetDone(u.w, target, i, status) ELSE u.w
        s == sync_task_status_by_text(w1, tasks[i].text, status)
    IN IF S = {} THEN u
       ELSE IF tasks[i].text = <<>> THEN Upd(w1, u.updated \/ changed)
       ELSE Upd(s.w, u.updated \/ changed \/ s.updated)

\* the ids of a set in the order the loop visits them
RECURSIVE MarkIds(_, _, _, _)
MarkIds(u, target, ids, status) ==
    IF ids = {} THEN u
    ELSE LET id == CHOOSE x \in ids : \A y \in ids : x <= y
         IN MarkIds(MarkById(u, target, id, status), target, ids \ {id}, status)

\* a checklist_tasks_done service message: the widget it names (or none), the
\* message it replies to (or none) and the two id lists
ChecklistTasksDone(cm, reply, done_ids, not_done_ids) ==
    [cm |-> cm, reply |-> reply, done_ids |-> done_ids, not_done_ids |-> not_done_ids]

HasItemIn(tasks, ids) == \E i \in 1..Len(tasks) : tasks[i].item_id \in ids

\* lines 746-800: without checklist_message the checklist is looked up by the
\* item ids: the daily list first, then the first tag that has one of them
FoundByItemId(w, e) ==
    LET all_ids == e.done_ids \cup e.not_done_ids
        ts == TagStates(w)
        found == {i \in 1..Len(ts) : HasItemIn(ts[i].tasks, all_ids)}
        first == CHOOSE i \in found : \A j \in found : i <= j
    IN IF e.cm # NoneId THEN [id |-> e.cm, by_item |-> FALSE]
       ELSE IF HasItemIn(w.rec.tasks, all_ids)
            THEN [id |-> w.rec.checklist_message_id, by_item |-> TRUE]
       ELSE IF found # {}
            THEN [id |-> ts[first].checklist_message_id, by_item |-> TRUE]
       ELSE [id |-> NoneId, by_item |-> FALSE]

\* lines 816-838: reply_to_message, then the id of the service message itself
OriginalMessageId(w, e, service_mid) ==
    LET f == FoundByItemId(w, e)
    IN IF f.id # NoneId THEN f.id
       ELSE IF e.reply # NoneId THEN e.reply
       ELSE service_mid

\* a resolution that takes every event for the daily checklist
TargetAlwaysDaily(w, original_message_id) == DailyList

\* lines 856-897: the checklist of the record that has this message id
TargetOf(w, original_message_id) ==
    LET ts == TagStates(w)
        hit == {i \in 1..Len(ts) : ts[i].checklist_message_id = original_message_id}
        first == CHOOSE i \in hit : \A j \in hit : i <= j
    IN IF w.rec.checklist_message_id = original_message_id THEN DailyList
       ELSE IF hit # {} THEN ts[first].tag
       ELSE NoTag

handle_checklist_state_update(w, e, service_mid) ==
    LET original_message_id == OriginalMessageId(w, e, service_mid)
        target == TargetOf(w, original_message_id)
        u0 == Upd(w, FALSE)
        u == IF FoundByItemId(w, e).by_item
             THEN MarkIds(MarkIds(u0, target, e.done_ids, TRUE),
                          target, e.not_done_ids, FALSE)
             ELSE MarkLoop(u0, target, 1, e.done_ids, e.not_done_ids)
    IN IF target = NoTag THEN w
       ELSE IF u.updated THEN save_user_state(u.w) ELSE u.w

\* the ids an event may carry
EventIds == 1..3

\* one id ticked or unticked, or the ids 1 and 2 together
EventIdSets ==
    {p \in (SUBSET EventIds) \X (SUBSET EventIds) :
        /\ p[1] \cap p[2] = {}
        /\ p[1] \cup p[2] # {}
        /\ Cardinality(p[1] \cup p[2]) = 1 \/ p[1] \cup p[2] = {1, 2}}

\* state.py STATE and the table: the chat has no record
NoRecord == [none |-> TRUE]

\* main.py get_or_create_user_state lines 125-144: the record of a new chat
NewUserState ==
    [asked_for_time |-> FALSE, waiting_for_time |-> FALSE,
     time |-> NoTime, day_end_time |-> NoTime, timezone_offset_minutes |-> 0,
     checklist_message_id |-> NoneId, date |-> NoDate, tasks |-> <<>>,
     last_closed_date |-> NoDate, last_opened_date |-> NoDate,
     pending_task_text |-> NoText, pending_task_message_id |-> NoneId,
     pending_service_message_ids |-> <<>>, awaiting_tag |-> FALSE,
     tags_history |-> <<>>, tags_page_index |-> 0,
     pending_confirm_job_id |-> NoJob, next_rollover_job_name |-> NoJob,
     tag_checklists |-> 0]

get_or_create_user_state(w) ==
    IF w.rec # NoRecord THEN w
    ELSE save_user_state(
           [w EXCEPT !.dicts = Append(@, <<>>),
                     !.rec = [NewUserState EXCEPT !.tag_checklists = Len(w.dicts) + 1]])

\* a service message of the platform: no text, the event it reports
ServiceMessage(e) == [text |-> NoText, checklist_tasks_done |-> e]

\* a dispatch that never recognises a checklist event
no_checklist_state_event(m) == FALSE

\* main.py handle_all_updates lines 621-626
is_checklist_state_event(m) == m.checklist_tasks_done # NoRecord

\* main.py handle_all_updates lines 637-726 for a message without text that
\* is no command and is not filtered as a system message
handle_textless_message(w0, msg) ==
    LET c == get_or_create_user_state(w0)
        cur == get_user_local_date(c)
        w == IF c.rec.checklist_message_id # NoneId /\ c.rec.date # cur
             THEN save_user_state([c EXCEPT !.rec.date = cur]) ELSE c
    IN IF w.rec.waiting_for_time THEN R(w, LocInit, "tset_err")
       ELSE IF ~w.rec.asked_for_time
            THEN R(w, [LocInit EXCEPT !.extra = msg], "fm_send")
       ELSE IF w.rec.time = NoTime THEN R(w, LocInit, "tset_err")
       ELSE IF w.rec.awaiting_tag /\ w.rec.pending_task_text # NoText THEN Finish(w)
       ELSE handle_task_addition(w, LocInit, NoText, msg)

\* main.py handle_all_updates lines 615-634: the service message arrives; a
\* checklist event is handled when the chat has a record and nothing else is
\* done with the message (the history keeps the latest event with the record
\* before and after it)
ChecklistEventFrom(widgets, idsets) ==
    /\ Idle("upd")
    /\ Quiet
    /\ CanSend
    /\ ops > 0
    /\ \E cm \in widgets, ids \in idsets :
       \E reply \in {r \in {NoneId, 1} : cm = NoneId \/ r = NoneId} :
         LET e == ChecklistTasksDone(cm, reply, ids[1], ids[2])
             w0 == Send(World, "service", NoDate, <<>>)
             w1 == IF w0.rec = NoRecord THEN w0
                   ELSE handle_checklist_state_update(w0, e, LastMid(w0))
             orig == OriginalMessageId(w0, e, LastMid(w0))
             old == w1.events
             w2 == [w1 EXCEPT !.events =
                      SelectSeqBy(old, [i \in 1..Len(old) |-> old[i].ev # "tick"])
                      \o <<[ev |-> "tick", e |-> e, orig |-> orig,
                            target |-> TargetOf(w0, orig),
                            before |-> Snap(w0), after |-> Snap(w1),
                            db0 |-> w0.db, db1 |-> w1.db]>>]
         IN IF is_checklist_state_event(ServiceMessage(e))
            THEN Commit("upd", Finish(IF w1.events = NoHistory THEN w1 ELSE w2))
            ELSE Commit("upd", handle_textless_message(w0, LastMid(w0)))
    /\ ops' = ops - 1

ChecklistEvent == ChecklistEventFrom(0..Len(msgs), EventIdSets)

\* the user ticks the first item of the daily widget
DailyTick == ChecklistEventFrom({rec.checklist_message_id} \ {NoneId}, {<<{1}, {}>>})

\* time passes
Tick ==
    /\ Quiet
    /\ now + TickMinutes <= StartNow + MaxTicks * TickMinutes
    /\ now' = now + TickMinutes
    /\ UNCHANGED <<rec, dicts, tco, db, msgs, reports, archive, jobs, pc, loc, ops,
                   trace, events>>

\* ---------------------------------------------------------------------------
\* Initial states: an onboarded user whose time was set at StartNow
\* (main.py apply_user_time, state.py set_user_time_info), with some tasks
\* captured and some of them ticked since
\* ---------------------------------------------------------------------------
\* an offset that is not normalised to the half-day range
compute_offset_raw(utc_minutes, user_minutes) ==
    (user_minutes - utc_minutes) % MinutesPerDay

\* helpers_daily.py compute_local_datetime_and_offset
compute_offset(utc_minutes, user_minutes) ==
    LET raw_delta == (user_minutes - utc_minutes) % MinutesPerDay
    IN ((raw_delta + 720) % MinutesPerDay) - 720

\* helpers_daily.py compute_local_datetime_and_offset lines 44-61: the local
\* datetime and the offset, for the UTC instant now_utc (in minutes)
compute_local_datetime_and_offset(now_utc, user_minutes) ==
    LET delta == compute_offset(now_utc % MinutesPerDay, user_minutes)
    IN [local_dt |-> now_utc + delta, delta |-> delta]

UserTimes == {1380}

\* what the user answers in the time dialogue: 23:00, 11:00, and no time
TimeInputs == {1380, 660, 1500}

InitDaily ==
    { <<TaskItem(1, SmileText, FALSE)>>,
      <<TaskItem(1, <<"a">>, TRUE), TaskItem(2, <<"b">>, FALSE)>>,
      <<TaskItem(1, <<"a">>, TRUE)>> }

\* a done task followed by a not-done one
ExampleAB == <<TaskItem(1, <<"a">>, TRUE), TaskItem(2, <<"b">>, FALSE)>>

InitTagTasks ==
    { <<>>,
      <<TaskItem(1, <<"a">>, FALSE), TaskItem(2, <<"b">>, TRUE)>>,
      <<TaskItem(1, <<"b">>, TRUE)>> }

AllItems(tasks) == [i \in 1..Len(tasks) |-> [id |-> tasks[i].item_id, text |-> tasks[i].text]]

InitWorld(T, daily, tx, ty) ==
    LET off == compute_offset(StartNow % MinutesPerDay, T)
        date == DateOf(StartNow + off)
        tagl == (IF tx # <<>> THEN <<[tag |-> TagX, tasks |-> tx]>> ELSE <<>>)
                \o (IF ty # <<>> THEN <<[tag |-> TagY, tasks |-> ty]>> ELSE <<>>)
        r == [asked_for_time |-> TRUE, waiting_for_time |-> FALSE,
              time |-> T, day_end_time |-> T, timezone_offset_minutes |-> off,
              checklist_message_id |-> 1, date |-> date, tasks |-> daily,
              last_closed_date |-> date, last_opened_date |-> date,
              pending_task_text |-> NoText, pending_task_message_id |-> NoneId,
              pending_service_message_ids |-> <<>>, awaiting_tag |-> FALSE,
              tags_history |-> [i \in 1..Len(tagl) |-> tagl[i].tag],
              tags_page_index |-> 0, pending_confirm_job_id |-> NoJob,
              next_rollover_job_name |-> MidnightName, tag_checklists |-> 1]
        w == [now |-> StartNow, rec |-> r,
              dicts |-> << [i \in 1..Len(tagl) |-> i] >>,
              tco |-> [i \in 1..Len(tagl) |->
                         TagChecklistState(tagl[i].tag, i + 1, tagl[i].tasks)],
              db |-> r,
              msgs |-> <<[kind |-> "daily", title |-> date,
                          items |-> AllItems(daily), alive |-> TRUE]>>
                       \o [i \in 1..Len(tagl) |->
                             [kind |-> "tag", title |-> tagl[i].tag,
                              items |-> AllItems(tagl[i].tasks), alive |-> TRUE]],
              reports |-> <<>>, archive |-> <<>>, trace |-> <<>>, events |-> <<>>,
              jobs |-> <<Job(MidnightName, StartNow + ((MinutesPerDay - T) % MinutesPerDay), 0)>>]
    IN [w EXCEPT !.db = DbRow(w)]

InitFrom(w, budget) ==
    /\ now = w.now
    /\ rec = w.rec
    /\ dicts = w.dicts
    /\ tco = w.tco
    /\ db = w.db
    /\ msgs = w.msgs
    /\ reports = w.reports
    /\ archive = w.archive
    /\ jobs = w.jobs
    /\ trace = w.trace
    /\ events = w.events
    /\ pc = [p \in Procs |-> "idle"]
    /\ loc = [p \in Procs |-> LocInit]
    /\ ops = budget

InitSeq ==
    \E T \in UserTimes, daily \in InitDaily, tx \in InitTagTasks, ty \in InitTagTasks :
        InitFrom(InitWorld(T, daily, tx, ty), MaxOps)

InitRollCases ==
    { <<<<TaskItem(1, <<"a">>, TRUE), TaskItem(2, <<"b">>, FALSE)>>,
        <<TaskItem(1, <<"a">>, FALSE), TaskItem(2, <<"b">>, TRUE)>>, <<>>>>,
      <<<<TaskItem(1, <<"a">>, TRUE)>>,
        <<TaskItem(1, <<"b">>, TRUE)>>,
        <<TaskItem(1, <<"a">>, FALSE)>>>> }

InitRoll ==
    \E T \in UserTimes, c \in InitRollCases :
        InitFrom([InitWorld(T, c[1], c[2], c[3]) EXCEPT !.trace = NoHistory],
                 MaxRollOps)

\* steps of the day-close and day-open code shared by all triggers
SeqStep ==
    \/ \E p \in Procs : CloseSend(p)
    \/ \E p \in Procs : CloseDelDaily(p)
    \/ \E p \in Procs : CloseDelTag(p)
    \/ \E p \in Procs : CcSend(p)
    \/ \E p \in Procs : OpenCreated(p)
    \/ \E p \in Procs : RbSend(p)
    \/ TimerClosed
    \/ TimerOpened
    \/ SweepClosed
    \/ SweepOpened
    \/ ForceCloseDone
    \/ ForceNewdayDone

\* the timer, the sweep and the manual commands interleaved at remote calls
RollNext ==
    \/ TimerFire
    \/ SweepFire
    \/ handle_force_close
    \/ handle_force_newday
    \/ Tick
    \/ SeqStep
    \/ \E p \in Procs : CcDelDup(p)
    \/ \E p \in Procs : UcEditDone(p)

SpecRoll == InitRoll /\ [][RollNext]_vars

\* the same operations run one after the other
SeqNext ==
    \/ AllIdle /\ TimerFire
    \/ AllIdle /\ SweepFire
    \/ AllIdle /\ handle_force_close
    \/ AllIdle /\ handle_force_newday
    \/ AllIdle /\ Tick
    \/ SeqStep

SpecSeq == InitSeq /\ [][SeqNext]_vars

\* ---------------------------------------------------------------------------
\* The pending-task workflow: the update handler against the auto-skip job
\* ---------------------------------------------------------------------------
InitPendCases ==
    { <<<<TaskItem(1, <<"a">>, FALSE)>>, <<>>, <<>>>>,
      <<<<TaskItem(1, <<"a">>, FALSE)>>, <<TaskItem(1, <<"b">>, FALSE)>>, <<>>>> }

InitPend ==
    \E T \in UserTimes, c \in InitPendCases :
        InitFrom([InitWorld(T, c[1], c[2], c[3]) EXCEPT !.trace = NoHistory],
                 MaxPendOps)

PendStep ==
    \/ \E p \in Procs : UcEditDone(p)
    \/ \E p \in Procs : FwUpdated(p)
    \/ \E p \in Procs : FwDel(p)
    \/ \E p \in Procs : FtAdded(p)
    \/ \E p \in Procs : FtDel(p)
    \/ \E p \in Procs : CnDel(p)
    \/ \E p \in Procs : CpCreated(p)
    \/ \E p \in Procs : SfSend(p)
    \/ \E p \in Procs : TiSend(p)
    \/ \E p \in Procs : AtEdit1(p)
    \/ \E p \in Procs : AtSend(p)
    \/ \E p \in Procs : AtEdit3(p)

PendNext ==
    \/ BusinessText
    \/ TagSelect
    \/ TaskSkip
    \/ TaskDelete
    \/ AutoSkipFire
    \/ PendStep

SpecPend == InitPend /\ [][PendNext]_vars

\* the user sends tasks and takes no tag action; the process may restart; the
\* job queue runs every armed job and every remote call returns
InitFair ==
    \E T \in UserTimes, c \in InitPendCases :
        InitFrom([InitWorld(T, c[1], c[2], c[3]) EXCEPT !.trace = NoHistory],
                 MaxFairOps)

NewTask ==
    /\ ~(rec.awaiting_tag /\ rec.pending_task_text # NoText)
    /\ BusinessText

FairStep ==
    \/ \E p \in Procs : UcEditDone(p)
    \/ \E p \in Procs : FwUpdated(p)
    \/ \E p \in Procs : FwDel(p)
    \/ \E p \in Procs : CpCreated(p)
    \/ \E p \in Procs : SfSend(p)

FairNext ==
    \/ NewTask
    \/ AutoSkipFire
    \/ Restart
    \/ FairStep

FairLabels == {"uc_edit", "fw_updated", "fw_del", "cp_created", "sf_send"}

AllLabels == FairLabels \cup {"idle", "cc_send"}

\* a coroutine that can take its next step takes it
Resume ==
    \E p \in Procs :
        /\ pc[p] \in FairLabels
        /\ pc[p] \in AwaitLabels => CanRun(p)
        /\ pc[p] = "sf_send" => CanSend
        /\ \E lab \in AllLabels : pc' = [pc EXCEPT ![p] = lab]

\* the job queue runs an armed auto-skip job
RunJob ==
    /\ Idle("askip")
    /\ Quiet
    /\ \E k \in 1..Len(jobs) :
          jobs[k].name = AutoSkipName /\ jobs' = RemoveAt(jobs, k)

SpecPendFair ==
    InitFair /\ [][FairNext]_vars /\ WF_jobs(RunJob) /\ WF_pc(Resume)

\* ---------------------------------------------------------------------------
\* Two add_task_to_tag_checklist operations for a tag without a checklist
\* ---------------------------------------------------------------------------
RaceProcs == {"add1", "add2"}

RaceTexts == {<<"a">>, <<"A">>, <<"b">>}

InitRace ==
    \E T \in UserTimes, daily \in InitDaily, ty \in InitTagTasks :
        InitFrom([InitWorld(T, daily, <<>>, ty) EXCEPT !.trace = NoHistory],
                 Cardinality(RaceProcs))

AddStart(p) ==
    /\ Idle(p)
    /\ CanRun(p)
    /\ ops > 0
    /\ \E text \in RaceTexts :
         LET l == [LocInit EXCEPT !.tag = TagX, !.text = text, !.tok = ops,
                                  !.by = p, !.aret = "at_done"]
         IN Commit(p, add_task_to_tag_checklist(LogEvent(World, "add", l, TagX), l))
    /\ ops' = ops - 1

AtDone(p) ==
    /\ pc[p] = "at_done"
    /\ Commit(p, Finish(World))
    /\ UNCHANGED ops

RaceNext ==
    \/ \E p \in RaceProcs : AddStart(p)
    \/ \E p \in RaceProcs : AtSend(p)
    \/ \E p \in RaceProcs : AtDelDup(p)
    \/ \E p \in RaceProcs : AtEdit1(p)
    \/ \E p \in RaceProcs : AtEdit3(p)
    \/ \E p \in RaceProcs : AtDone(p)

SpecRace == InitRace /\ [][RaceNext]_vars

\* ---------------------------------------------------------------------------
\* Concurrent calls of create_checklist_for_user and update_checklist_for_user:
\* the update handler (task capture, skip, time set), the auto-skip job
\* (finalize_task_without_tag) and the rollover's Open
\* ---------------------------------------------------------------------------
MaxDailyCalls == 3

DailyProcs == {"upd", "askip", "timer"}

\* the daily widget the record refers to exists, was deleted in the chat, or
\* was never created; the record's date is the local date or the day before
WidgetCases == {"alive", "deleted", "none"}

InitDailyWorld(T, daily, wc, stale) ==
    LET w == [InitWorld(T, daily, <<>>, <<>>) EXCEPT !.trace = NoHistory]
        w1 == IF wc = "alive" THEN w ELSE Delete(w, 1)
        w2 == IF wc = "none" THEN [w1 EXCEPT !.rec.checklist_message_id = NoneId]
              ELSE w1
        w3 == IF stale THEN [w2 EXCEPT !.rec.date = @ - 1] ELSE w2
    IN [w3 EXCEPT !.db = DbRow(w3)]

InitDailyRace ==
    \E T \in UserTimes, daily \in InitDaily, wc \in WidgetCases, stale \in BOOLEAN :
        InitFrom(InitDailyWorld(T, daily, wc, stale), MaxDailyCalls)

DailyCall(p) ==
    /\ Idle(p)
    /\ CanRun(p)
    /\ ops > 0
    /\ LET l == [LocInit EXCEPT !.kret = "ck_done"]
       IN \/ p # "askip" /\ Commit(p, create_checklist_for_user(World, l))
          \/ p # "timer" /\ Commit(p, update_checklist_for_user(World, l))
    /\ ops' = ops - 1

CkDone(p) ==
    /\ pc[p] = "ck_done"
    /\ Commit(p, Finish(World))
    /\ UNCHANGED ops

DailyNext ==
    \/ \E p \in DailyProcs : DailyCall(p)
    \/ \E p \in DailyProcs : CcSend(p)
    \/ \E p \in DailyProcs : CcDelDup(p)
    \/ \E p \in DailyProcs : UcEditDone(p)
    \/ \E p \in DailyProcs : CkDone(p)

SpecDaily == InitDailyRace /\ [][DailyNext]_vars

\* ---------------------------------------------------------------------------
\* Checklist events on records whose lists share texts up to case and spacing
\* ---------------------------------------------------------------------------
MaxTickOps == 2

TextAB == <<"a", " ", "b">>

TextAB2 == <<"A", " ", " ", "b">>

InitTickCases ==
    { <<<<TaskItem(1, <<"a">>, FALSE), TaskItem(2, <<"b">>, FALSE)>>,
        <<TaskItem(1, <<"A">>, FALSE), TaskItem(2, <<"b">>, TRUE)>>,
        <<>>>>,
      <<<<TaskItem(1, TextAB, FALSE), TaskItem(2, TextAB2, TRUE)>>,
        <<TaskItem(1, <<"b">>, FALSE)>>,
        <<TaskItem(1, TextAB2, TRUE)>>>>,
      <<<<TaskItem(1, SmileText, FALSE)>>,
        <<TaskItem(1, <<"a">>, TRUE)>>,
        <<TaskItem(1, <<"a">>, FALSE), TaskItem(2, <<"b">>, FALSE)>>>> }

\* the record was opened today, or yesterday with the rollover still to come
InitTickWorld(T, c, yesterday) ==
    LET w == [InitWorld(T, c[1], c[2], c[3]) EXCEPT !.trace = NoHistory]
        w1 == IF yesterday
              THEN [w EXCEPT !.rec.date = @ - 1, !.rec.last_closed_date = @ - 1,
                             !.rec.last_opened_date = @ - 1, !.msgs[1].title = @ - 1]
              ELSE w
    IN [w1 EXCEPT !.db = DbRow(w1)]

InitTick ==
    \E T \in UserTimes, c \in InitTickCases, yesterday \in BOOLEAN :
        InitFrom(InitTickWorld(T, c, yesterday), MaxTickOps)

TickNext ==
    \/ ChecklistEvent
    \/ handle_force_close
    \/ \E p \in Procs : CloseSend(p)
    \/ \E p \in Procs : CloseDelDaily(p)
    \/ \E p \in Procs : CloseDelTag(p)
    \/ ForceCloseDone

SpecTick == InitTick /\ [][TickNext]_vars

\* ---------------------------------------------------------------------------
\* A rollover by the timer or the sweep while tasks are added to a tag
\* ---------------------------------------------------------------------------
MaxDayOps == 3

InitDayTags ==
    { <<TaskItem(1, <<"b">>, TRUE)>>,
      <<TaskItem(1, <<"b">>, FALSE), TaskItem(2, <<"a">>, FALSE)>> }

InitDay ==
    \E T \in UserTimes, ty \in InitDayTags :
        InitFrom([InitWorld(T, ExampleAB, <<>>, ty)
                    EXCEPT !.trace = NoHistory, !.events = NoHistory],
                 MaxDayOps)

DayNext ==
    \/ Tick
    \/ TimerFire
    \/ SweepFire
    \/ AddStart("add1")
    \/ \E p \in Procs : CloseSend(p)
    \/ \E p \in Procs : CloseDelDaily(p)
    \/ \E p \in Procs : CloseDelTag(p)
    \/ \E p \in Procs : CcSend(p)
    \/ \E p \in Procs : CcDelDup(p)
    \/ \E p \in Procs : UcEditDone(p)
    \/ \E p \in Procs : OpenCreated(p)
    \/ \E p \in Procs : RbSend(p)
    \/ \E p \in Procs : AtSend(p)
    \/ \E p \in Procs : AtEdit1(p)
    \/ \E p \in Procs : AtEdit3(p)
    \/ \E p \in Procs : AtDone(p)
    \/ TimerClosed
    \/ TimerOpened
    \/ SweepClosed
    \/ SweepOpened

SpecDay == InitDay /\ [][DayNext]_vars

\* ---------------------------------------------------------------------------
\* Every place that renders a checklist: the daily create and update, the
\* addition to a tag and the rebuild of the tags at Open, with tasks ticked in
\* the daily widget in between
\* ---------------------------------------------------------------------------
MaxRenderOps == 3

TasksBA == <<TaskItem(1, <<"b">>, FALSE), TaskItem(2, <<"a">>, FALSE)>>

InitRenderTags == {<<<<>>, ty>> : ty \in InitDayTags} \cup {<<TasksBA, TasksBA>>}

InitRender ==
    \E T \in UserTimes, c \in InitRenderTags :
        InitFrom([InitWorld(T, ExampleAB, c[1], c[2])
                    EXCEPT !.trace = NoHistory, !.events = NoHistory],
                 MaxRenderOps)

RenderNext ==
    \/ AllIdle /\ Tick
    \/ AllIdle /\ TimerFire
    \/ AllIdle /\ AddStart("add1")
    \/ AllIdle /\ DailyCall("askip")
    \/ DailyTick
    \/ \E p \in Procs : CloseSend(p)
    \/ \E p \in Procs : CloseDelDaily(p)
    \/ \E p \in Procs : CloseDelTag(p)
    \/ \E p \in Procs : CcSend(p)
    \/ \E p \in Procs : UcEditDone(p)
    \/ \E p \in Procs : OpenCreated(p)
    \/ \E p \in Procs : RbSend(p)
    \/ \E p \in Procs : AtSend(p)
    \/ \E p \in Procs : AtEdit1(p)
    \/ \E p \in Procs : AtEdit3(p)
    \/ \E p \in Procs : AtDone(p)
    \/ \E p \in Procs : CkDone(p)
    \/ TimerClosed
    \/ TimerOpened

SpecRender == InitRender /\ [][RenderNext]_vars

\* ---------------------------------------------------------------------------
\* The time dialogue: /время (or /time), then the new time as HH:MM.  The
\* prompt, the answer and the confirmation are service messages which the
\* dialogue deletes again when it ends; they are not kept in msgs.
\* ---------------------------------------------------------------------------
\* helpers_text.py parse_time_string: minutes of the day of a valid HH:MM,
\* None for anything else (an hour above 23 is modelled by a value >= 1440)
parse_time_string(t) == IF t >= 0 /\ t < MinutesPerDay THEN t ELSE NoTime

\* state.py set_user_time_info, for a time that parsed
set_user_time_info(w, t) ==
    LET off == compute_offset(w.now % MinutesPerDay, t)
        local_date == DateOf(w.now + off)
    IN save_user_state(
         [w EXCEPT !.rec.time = t, !.rec.day_end_time = t,
                   !.rec.timezone_offset_minutes = off,
                   !.rec.date = local_date,
                   !.rec.last_closed_date =
                       IF @ = NoDate THEN local_date ELSE @])

\* main.py handle_time_command up to the prompt
handle_time_command ==
    /\ Idle("upd")
    /\ Quiet
    /\ ops > 0
    /\ Commit("upd", R([World EXCEPT !.rec.asked_for_time = TRUE,
                                     !.rec.waiting_for_time = TRUE,
                                     !.rec.time = NoTime],
                       LocInit, "tcmd_send"))
    /\ ops' = ops - 1

\* the prompt was sent: the record is saved
TimeCommandSent ==
    /\ pc["upd"] = "tcmd_send"
    /\ CanRun("upd")
    /\ Commit("upd", Finish(save_user_state(World)))
    /\ UNCHANGED ops

\* main.py handle_all_updates step 0: a widget dated another day is re-dated
\* (create_checklist_for_user then finds the date current and returns)
RedateStale(w) ==
    IF w.rec.checklist_message_id # NoneId /\ w.rec.date # get_user_local_date(w)
    THEN save_user_state([w EXCEPT !.rec.date = get_user_local_date(w)])
    ELSE w

\* main.py apply_user_time after set_user_time_info succeeded
apply_user_time(w, t) ==
    LET w1 == set_user_time_info(w, t)
        w2 == [w1 EXCEPT !.rec.waiting_for_time = FALSE,
                         !.rec.last_opened_date = w1.rec.date]
    IN create_checklist_for_user(schedule_user_midnight_job(w2),
                                 [LocInit EXCEPT !.kret = "tset_created"])

\* main.py handle_time_input, reached while a time is awaited
handle_time_input ==
    /\ Idle("upd")
    /\ Quiet
    /\ ops > 0
    /\ rec.waiting_for_time \/ (rec.asked_for_time /\ rec.time = NoTime)
    /\ \E t \in TimeInputs :
         LET w0 == RedateStale(World)
         IN IF parse_time_string(t) = NoTime
            THEN Commit("upd", R(w0, LocInit, "tset_err"))
            ELSE Commit("upd", apply_user_time(w0, parse_time_string(t)))
    /\ ops' = ops - 1

\* the text was no time: after the error message the bot keeps waiting
TimeInputRejected ==
    /\ pc["upd"] = "tset_err"
    /\ CanRun("upd")
    /\ Commit("upd", Finish(save_user_state(
                        [World EXCEPT !.rec.waiting_for_time = TRUE])))
    /\ UNCHANGED ops

\* apply_user_time returns: the record is saved, the confirmation is sent
TimeApplied ==
    /\ pc["upd"] = "tset_created"
    /\ Commit("upd", R(save_user_state(World), LocInit, "tset_send"))
    /\ UNCHANGED ops

\* the confirmation was sent and the service messages deleted
TimeInputDone ==
    /\ pc["upd"] = "tset_send"
    /\ CanRun("upd")
    /\ Commit("upd", Finish(save_user_state(World)))
    /\ UNCHANGED ops

\* main.py handle_all_updates lines 637-712 for the text of a chat that was
\* never asked for the time: the record is created if the chat has none
handle_first_message ==
    /\ Idle("upd")
    /\ Quiet
    /\ CanSend
    /\ ops > 0
    /\ IF rec = NoRecord THEN TRUE
       ELSE ~rec.waiting_for_time /\ ~rec.asked_for_time
    /\ \E text \in UserTexts :
         LET w0 == get_or_create_user_state(Send(World, "user", NoTag, text))
         IN Commit("upd", R(RedateStale(w0),
                            [LocInit EXCEPT !.extra = LastMid(w0)], "fm_send"))
    /\ ops' = ops - 1

\* main.py handle_first_message lines 205-248: the two greetings were sent, or
\* a send raised and the handler returned
FirstMessageSent ==
    /\ pc["upd"] = "fm_send"
    /\ CanRun("upd")
    /\ \E sent \in BOOLEAN :
         LET w1 == Send(Send(World, "service", NoTag, <<>>), "service", NoTag, <<>>)
             w2 == Delete(w1, loc["upd"].extra)
         IN IF sent /\ Len(msgs) + 2 <= MaxMsgs
            THEN Commit("upd", Finish(save_user_state(
                      [w2 EXCEPT !.rec.asked_for_time = TRUE,
                                 !.rec.waiting_for_time = TRUE])))
            ELSE Commit("upd", Finish(World))
    /\ UNCHANGED ops

\* ---------------------------------------------------------------------------
\* The days of a user who may set the time again: ticks, the midnight timer,
\* the sweep, /force_close and the time dialogue, one at a time
\* ---------------------------------------------------------------------------
MaxTimeOps == 4

InitTime ==
    \E T \in UserTimes :
        InitFrom([InitWorld(T, ExampleAB, <<>>, <<>>)
                    EXCEPT !.trace = NoHistory, !.events = NoHistory],
                 MaxTimeOps)

TimeNext ==
    \/ AllIdle /\ Tick
    \/ AllIdle /\ TimerFire
    \/ AllIdle /\ SweepFire
    \/ AllIdle /\ handle_force_close
    \/ AllIdle /\ handle_time_command
    \/ AllIdle /\ handle_time_input
    \/ TimeCommandSent
    \/ TimeInputRejected
    \/ TimeApplied
    \/ TimeInputDone
    \/ \E p \in Procs : CloseSend(p)
    \/ \E p \in Procs : CloseDelDaily(p)
    \/ \E p \in Procs : CcSend(p)
    \/ \E p \in Procs : OpenCreated(p)
    \/ ForceCloseDone
    \/ TimerClosed
    \/ TimerOpened
    \/ SweepClosed
    \/ SweepOpened

SpecTime == InitTime /\ [][TimeNext]_vars

\* ---------------------------------------------------------------------------
\* The midnight timer is lost: the job never fires, or a restart after the
\* user's midnight re-arms it for later.  The sweep passes run next to the
\* additions of tasks to a tag.
\* ---------------------------------------------------------------------------
MaxSweepOps == 3

InitSweep ==
    \E T \in UserTimes, ty \in InitDayTags :
        InitFrom([InitWorld(T, ExampleAB, <<>>, ty)
                    EXCEPT !.trace = NoHistory, !.events = NoHistory],
                 MaxSweepOps)

SweepNext ==
    \/ Tick
    \/ Restart
    \/ SweepFire
    \/ AddStart("add1")
    \/ \E p \in Procs : CloseSend(p)
    \/ \E p \in Procs : CloseDelDaily(p)
    \/ \E p \in Procs : CloseDelTag(p)
    \/ \E p \in Procs : CcSend(p)
    \/ \E p \in Procs : OpenCreated(p)
    \/ \E p \in Procs : RbSend(p)
    \/ \E p \in Procs : AtSend(p)
    \/ \E p \in Procs : AtEdit1(p)
    \/ \E p \in Procs : AtEdit3(p)
    \/ \E p \in Procs : AtDone(p)
    \/ SweepClosed
    \/ SweepOpened

SpecSweep == InitSweep /\ [][SweepNext]_vars

\* ---------------------------------------------------------------------------
\* A pending task is committed with a tag, typed or selected, one handler at a
\* time.  The tag may have no checklist, a checklist whose widget is in the
\* chat, or one whose widget the user has deleted.
\* ---------------------------------------------------------------------------
MaxCommitOps == 3

InitCommitTags ==
    { <<>>,
      <<TaskItem(1, <<"b">>, FALSE)>>,
      <<TaskItem(1, <<"b">>, TRUE)>>,
      <<TaskItem(1, <<"b">>, TRUE), TaskItem(2, <<"a">>, FALSE)>> }

InitCommitWorld(T, tx, gone) ==
    LET w == [InitWorld(T, <<TaskItem(1, <<"a">>, FALSE)>>, tx, <<>>)
                EXCEPT !.trace = NoHistory, !.events = <<>>]
    IN IF gone THEN Delete(w, 2) ELSE w

InitCommit ==
    \E T \in UserTimes, tx \in InitCommitTags, gone \in BOOLEAN :
        /\ gone => tx # <<>>
        /\ InitFrom(InitCommitWorld(T, tx, gone), MaxCommitOps)

\* history: the record as the handler found it
HandlerBegins(w) == [w EXCEPT !.events = <<[ev |-> "begin", before |-> Snap(w)]>>]

CommitNext ==
    \/ AllIdle /\ BusinessTextFrom(HandlerBegins(World))
    \/ AllIdle /\ TagSelectFrom(HandlerBegins(World))
    \/ CpCreated("upd")
    \/ SfSend("upd")
    \/ TiSend("upd")
    \/ AtEdit1("upd")
    \/ AtSend("upd")
    \/ AtEdit3("upd")
    \/ FtAdded("upd")
    \/ FtDel("upd")

SpecCommit == InitCommit /\ [][CommitNext]_vars

\* ---------------------------------------------------------------------------
\* Events that carry item ids only, with /force_close on the next day and
\* additions of tagged tasks
\* ---------------------------------------------------------------------------
MaxIdOps == 3

InitIds ==
    \E T \in UserTimes, tx \in {<<>>, <<TaskItem(1, <<"b">>, FALSE)>>} :
        InitFrom([InitWorld(T, ExampleAB, tx, <<>>)
                    EXCEPT !.trace = NoHistory, !.events = <<>>],
                 MaxIdOps)

IdsNext ==
    \/ AllIdle /\ Tick
    \/ AllIdle /\ handle_force_close
    \/ AllIdle /\ AddStart("add1")
    \/ AllIdle /\ ChecklistEventFrom({NoneId}, EventIdSets)
    \/ CloseSend("upd")
    \/ CloseDelDaily("upd")
    \/ CloseDelTag("upd")
    \/ ForceCloseDone
    \/ AtSend("add1")
    \/ AtEdit1("add1")
    \/ AtEdit3("add1")
    \/ AtDone("add1")

SpecIds == InitIds /\ [][IdsNext]_vars

\* ---------------------------------------------------------------------------
\* A pending task is resolved without a tag: skipped, timed out or cancelled,
\* or replaced by a newer task text, one handler or job at a time.  The daily
\* widget is in the chat or was deleted by the user.
\* ---------------------------------------------------------------------------
MaxSkipOps == 3

InitSkipDaily ==
    { <<TaskItem(1, <<"a">>, FALSE)>>,
      <<TaskItem(1, <<"b">>, TRUE), TaskItem(3, <<"A">>, FALSE)>>,
      <<TaskItem(1, SmileText, FALSE)>> }

InitSkip ==
    \E T \in UserTimes, daily \in InitSkipDaily, gone \in BOOLEAN :
        LET w == [InitWorld(T, daily, <<TaskItem(1, <<"b">>, FALSE)>>, <<>>)
                    EXCEPT !.trace = NoHistory, !.events = <<>>]
        IN InitFrom(IF gone THEN Delete(w, 1) ELSE w, MaxSkipOps)

SkipNext ==
    \/ AllIdle /\ BusinessTextFrom(HandlerBegins(World))
    \/ AllIdle /\ TaskSkipFrom(HandlerBegins(World))
    \/ AllIdle /\ TaskDeleteFrom(HandlerBegins(World))
    \/ AllIdle /\ AutoSkipFireFrom(HandlerBegins(World))
    \/ \E p \in {"upd", "askip"} : UcEditDone(p)
    \/ \E p \in {"upd", "askip"} : CcSend(p)
    \/ \E p \in {"upd", "askip"} : FwUpdated(p)
    \/ \E p \in {"upd", "askip"} : FwDel(p)
    \/ CnDel("upd")
    \/ CpCreated("upd")
    \/ SfSend("upd")

SpecSkip == InitSkip /\ [][SkipNext]_vars

\* ---------------------------------------------------------------------------
\* The pending-task workflow with a longer dialogue: a task is cancelled
\* after earlier tasks were resolved
\* ---------------------------------------------------------------------------
MaxCancelOps == 5

InitCancel ==
    InitFrom([InitWorld(1380, <<TaskItem(1, <<"a">>, FALSE)>>, <<>>, <<>>)
                EXCEPT !.trace = NoHistory, !.events = NoHistory],
             MaxCancelOps)

SpecCancel == InitCancel /\ [][PendNext]_vars

\* ---------------------------------------------------------------------------
\* The sweep closes and opens the day while the user ticks and unticks tasks
\* in the widgets
\* ---------------------------------------------------------------------------
MaxReportOps == 3

InitReportTags ==
    { <<>>,
      <<TaskItem(1, <<"b">>, TRUE)>>,
      <<TaskItem(1, <<"b">>, TRUE), TaskItem(2, <<"a">>, FALSE)>> }

InitReport ==
    \E T \in UserTimes, tx \in InitReportTags :
        InitFrom([InitWorld(T, ExampleAB, tx, <<>>)
                    EXCEPT !.trace = NoHistory, !.events = NoHistory],
                 MaxReportOps)

ReportNext ==
    \/ Tick
    \/ SweepFire
    \/ ChecklistEventFrom(0..Len(msgs), {<<{1}, {}>>, <<{2}, {}>>, <<{}, {1}>>})
    \/ CloseSend("sweep")
    \/ CloseDelDaily("sweep")
    \/ CloseDelTag("sweep")
    \/ SweepClosed
    \/ CcSend("sweep")
    \/ OpenCreated("sweep")
    \/ RbSend("sweep")
    \/ SweepOpened

SpecReport == InitReport /\ [][ReportNext]_vars

\* ---------------------------------------------------------------------------
\* The sweep against a concurrent tagged addition, with the history of every
\* close kept (the record before it and at its return)
\* ---------------------------------------------------------------------------
InitTeardown ==
    \E T \in UserTimes, ty \in InitDayTags :
        InitFrom([InitWorld(T, ExampleAB, <<>>, ty) EXCEPT !.events = NoHistory],
                 MaxSweepOps)

SpecTeardown == InitTeardown /\ [][SweepNext]_vars

\* ---------------------------------------------------------------------------
\* The midnight timer against the time dialogue: the user sets the time again
\* while the handler of the timer is suspended in its remote calls
\* ---------------------------------------------------------------------------
ChainNext ==
    \/ Tick
    \/ TimerFire
    \/ handle_time_command
    \/ handle_time_input
    \/ TimeCommandSent
    \/ TimeInputRejected
    \/ TimeApplied
    \/ TimeInputDone
    \/ \E p \in Procs : CloseSend(p)
    \/ \E p \in Procs : CloseDelDaily(p)
    \/ \E p \in Procs : CcSend(p)
    \/ \E p \in Procs : OpenCreated(p)
    \/ TimerClosed
    \/ TimerOpened

SpecChain == InitTime /\ [][ChainNext]_vars

\* ---------------------------------------------------------------------------
\* Tag commits of a user whose tag history is empty, short or full
\* ---------------------------------------------------------------------------
MaxHistoryOps == 4

TagLetters == <<"a", "b", "_">>

\* thirty distinct tags, none of them a tag the user types or selects here
TagNo(i) ==
    LET k == i - 1
    IN IF i <= 27
       THEN <<"#", TagLetters[(k \div 9) + 1], TagLetters[((k \div 3) % 3) + 1],
              TagLetters[(k % 3) + 1]>>
       ELSE <<"#", "a", "a", "a", TagLetters[((i - 28) % 3) + 1]>>

OldTags(n) == [i \in 1..n |-> TagNo(i)]

InitHistories ==
    { <<>>, <<TagX>>, <<TagY, TagX>>,
      OldTags(TagsHistoryCap),
      OldTags(TagsHistoryCap - 1),
      <<TagX, TagY>> \o OldTags(TagsHistoryCap - 2) }

InitHistoryWorld(T, tx, h) ==
    LET w == InitCommitWorld(T, tx, FALSE)
    IN [w EXCEPT !.rec.tags_history = h, !.db.tags_history = h]

InitHistory ==
    \E T \in UserTimes, tx \in {<<>>, <<TaskItem(1, <<"b">>, FALSE)>>},
       h \in InitHistories :
        InitFrom(InitHistoryWorld(T, tx, h), MaxHistoryOps)

SpecHistory == InitHistory /\ [][CommitNext]_vars

\* ---------------------------------------------------------------------------
\* A chat from its first message on: the greeting, the time dialogue, tasks
\* with tags, and service messages of the platform that report ticks
\* ---------------------------------------------------------------------------
MaxOnboardOps == 4

NoRecordWorld ==
    [now |-> StartNow, rec |-> NoRecord, dicts |-> <<>>, tco |-> <<>>,
     db |-> NoRecord, msgs |-> <<>>, reports |-> <<>>, archive |-> <<>>,
     jobs |-> <<>>, trace |-> NoHistory, events |-> NoHistory]

\* a chat the bot never saw, or a user with a daily and a tag checklist
InitOnboard ==
    \/ InitFrom(NoRecordWorld, MaxOnboardOps)
    \/ \E T \in UserTimes :
          InitFrom([InitCommitWorld(T, <<TaskItem(1, <<"b">>, FALSE)>>, FALSE)
                      EXCEPT !.events = NoHistory],
                   MaxOnboardOps)

HasRecord == rec # NoRecord

\* the text is a task or a tag: the time is set and no time is awaited
Onboarded ==
    HasRecord /\ rec.asked_for_time /\ ~rec.waiting_for_time /\ rec.time # NoTime

\* the user ticks or unticks item 1 in the daily widget, or the event names no
\* widget
OnboardEvent ==
    ChecklistEventFrom({NoneId} \cup (IF HasRecord THEN {rec.checklist_message_id} ELSE {}),
                       {<<{1}, {}>>, <<{}, {1}>>})

OnboardNext ==
    \/ AllIdle /\ OnboardEvent
    \/ AllIdle /\ handle_first_message
    \/ FirstMessageSent
    \/ AllIdle /\ HasRecord /\ handle_time_command
    \/ AllIdle /\ HasRecord /\ handle_time_input
    \/ TimeCommandSent
    \/ TimeInputRejected
    \/ TimeApplied
    \/ TimeInputDone
    \/ AllIdle /\ Onboarded /\ BusinessText
    \/ AllIdle /\ Onboarded /\ TagSelect
    \/ \E p \in Procs : CcSend(p)
    \/ CpCreated("upd")
    \/ SfSend("upd")
    \/ TiSend("upd")
    \/ AtEdit1("upd")
    \/ AtSend("upd")
    \/ AtEdit3("upd")
    \/ FtAdded("upd")
    \/ FtDel("upd")

SpecOnboard == InitOnboard /\ [][OnboardNext]_vars

\* ---------------------------------------------------------------------------
\* save_user_state applied to records whose task lists hold any tasks
\* ---------------------------------------------------------------------------
MaxCleanLen == 3

MaxCleanOps == 1

CleanTexts == { <<"a">>, <<"A", " ">>, <<"b">> }

CleanItems == {TaskItem(id, text, done) : id \in 1..2, text \in CleanTexts, done \in BOOLEAN}

RECURSIVE SeqsUpTo(_, _)
SeqsUpTo(S, n) ==
    IF n = 0 THEN {<<>>}
    ELSE LET shorter == SeqsUpTo(S, n - 1)
         IN shorter \cup {Append(s, x) : s \in {t \in shorter : Len(t) = n - 1}, x \in S}

Reverse(s) == [i \in 1..Len(s) |-> s[Len(s) + 1 - i]]

\* the record was saved, then its daily list became s and the list of its tag
\* became s backwards
InitCleanWorld(T, s) ==
    LET w == [InitWorld(T, <<TaskItem(1, <<"a">>, FALSE)>>,
                        <<TaskItem(1, <<"b">>, FALSE)>>, <<>>)
                EXCEPT !.trace = NoHistory, !.events = <<>>]
    IN [w EXCEPT !.rec.tasks = s,
                 !.tco[1].tasks = IF s = <<>> THEN @ ELSE Reverse(s)]

InitClean ==
    \E T \in UserTimes, s \in SeqsUpTo(CleanItems, MaxCleanLen) :
        InitFrom(InitCleanWorld(T, s), MaxCleanOps)

\* save_user_state is called (the history keeps the record it was called with)
SaveRecord ==
    /\ AllIdle
    /\ ops > 0
    /\ Commit("upd", Finish(save_user_state(HandlerBegins(World))))
    /\ ops' = ops - 1

CleanNext == SaveRecord

SpecClean == InitClean /\ [][CleanNext]_vars

\* ---------------------------------------------------------------------------
\* Around local midnight: the user sends a task, the midnight timer and the
\* sweep run, one at a time
\* ---------------------------------------------------------------------------
MaxLateOps == 3

InitLate ==
    \E T \in UserTimes :
        InitFrom([InitWorld(T, ExampleAB, <<>>, <<>>)
                    EXCEPT !.trace = NoHistory, !.events = NoHistory],
                 MaxLateOps)

LateNext ==
    \/ AllIdle /\ Tick
    \/ AllIdle /\ TimerFire
    \/ AllIdle /\ SweepFire
    \/ AllIdle /\ BusinessText
    \/ CpCreated("upd")
    \/ SfSend("upd")
    \/ \E p \in Procs : CloseSend(p)
    \/ \E p \in Procs : CloseDelDaily(p)
    \/ \E p \in Procs : CcSend(p)
    \/ \E p \in Procs : OpenCreated(p)
    \/ TimerClosed
    \/ TimerOpened
    \/ SweepClosed
    \/ SweepOpened

SpecLate == InitLate /\ [][LateNext]_vars

\* ---------------------------------------------------------------------------
\* Commits of a pending task: a tag is typed or selected, the button that
\* carries the title of the daily checklist is pressed, or the task is skipped
\* ---------------------------------------------------------------------------
MaxTitleOps == 5

\* the widgets in the chat of the tag checklist keyed by the title of the
\* daily checklist
TitleWidgets ==
    {m \in 1..Len(msgs) : /\ msgs[m].alive
                          /\ msgs[m].kind = "tag"
                          /\ msgs[m].title = get_checklist_title_from_date(
                                                get_user_local_date(World))}

\* the user ticks the first item of such a widget
TitleTick == ChecklistEventFrom(TitleWidgets, {<<{1}, {}>>})

InitTitle ==
    \E T \in UserTimes, tx \in InitCommitTags :
        InitFrom(InitCommitWorld(T, tx, FALSE), MaxTitleOps)

TitleNext ==
    \/ CommitNext
    \/ AllIdle /\ DailyTitleSelectFrom(HandlerBegins(World))
    \/ AllIdle /\ TaskSkipFrom(HandlerBegins(World))
    \/ AllIdle /\ TitleTick
    \/ UcEditDone("upd")
    \/ FwUpdated("upd")
    \/ FwDel("upd")

SpecTitle == InitTitle /\ [][TitleNext]_vars

\* ---------------------------------------------------------------------------
\* A new user who was greeted answers with the time, at any minute of the UTC
\* day
\* ---------------------------------------------------------------------------
MaxOffsetOps == 1

\* the record after the greeting (main.py handle_first_message)
GreetedWorld(u) ==
    [NoRecordWorld EXCEPT
       !.now = (DateOf(StartNow) + 1) * MinutesPerDay + u,
       !.dicts = << <<>> >>,
       !.rec = [NewUserState EXCEPT !.tag_checklists = 1,
                                    !.asked_for_time = TRUE,
                                    !.waiting_for_time = TRUE],
       !.db = [NewUserState EXCEPT !.tag_checklists = <<>>,
                                   !.asked_for_time = TRUE,
                                   !.waiting_for_time = TRUE],
       !.msgs = <<[kind |-> "user", title |-> NoTag, items |-> <<"a">>, alive |-> FALSE],
                  [kind |-> "service", title |-> NoTag, items |-> <<>>, alive |-> TRUE],
                  [kind |-> "service", title |-> NoTag, items |-> <<>>, alive |-> TRUE]>>]

InitOffset ==
    \E u \in 0..(MinutesPerDay - 1) : InitFrom(GreetedWorld(u), MaxOffsetOps)

OffsetNext ==
    \/ AllIdle /\ handle_time_input
    \/ TimeInputRejected
    \/ TimeApplied
    \/ TimeInputDone
    \/ \E p \in Procs : CcSend(p)

SpecOffset == InitOffset /\ [][OffsetNext]_vars

\* ===========================================================================
\* Properties
\* ===========================================================================
CountWhere(seq, cond(_)) == Cardinality({i \in 1..Len(seq) : cond(seq[i])})

\* two calls of fn recorded one after the other for the same computed date,
\* both returned
InSuccession(k, fn) ==
    /\ k \in 1..(Len(trace) - 1)
    /\ trace[k].fn = fn /\ trace[k + 1].fn = fn
    /\ trace[k].cur = trace[k + 1].cur
    /\ trace[k].done /\ trace[k + 1].done

TaskLists(snap) ==
    [daily |-> snap.tasks,
     tags |-> [i \in 1..Len(snap.tag_checklists) |->
                 [tag |-> snap.tag_checklists[i].tag,
                  tasks |-> snap.tag_checklists[i].tasks]]]

\* C1: for every computed local date the day-close effects (report send,
\* archive append, and with them the teardown and partition that follow in the
\* same call) are executed at most once, under every interleaving of the
\* timer, the sweep and /force_close at the remote calls of the close.
C1_CloseEffectsAtMostOncePerDate ==
    /\ \A i, j \in 1..Len(archive) : archive[i].cur = archive[j].cur => i = j
    /\ \A i, j \in 1..Len(reports) : reports[i].cur = reports[j].cur => i = j

C3_OpenTwiceOneDailyWidget ==
    \A k \in 1..(Len(trace) - 1) :
        (/\ trace[k].fn = "open" /\ trace[k + 1].fn = "open"
         /\ trace[k].cur = trace[k + 1].cur)
        => LET last == IF k + 2 <= Len(trace) THEN trace[k + 2].m0 ELSE Len(msgs)
           IN Cardinality({m \in (trace[k].m0 + 1)..last :
                              msgs[m].kind = "daily"}) <= 1

C3_Witness ==
    \E k \in 1..Len(trace) :
        /\ InSuccession(k, "open")
        /\ \E m \in (trace[k].m0 + 1)..trace[k].m1 : msgs[m].kind = "daily"
        /\ trace[k + 1].pre.checklist_message_id # NoneId

\* C4: an Open that starts with last_opened_date equal to the computed local
\* date sends no widget and changes no field of the record.
C4_OpenOnOpenedDateIsNoOp ==
    \A k \in 1..Len(trace) :
        (trace[k].fn = "open" /\ trace[k].done
           /\ trace[k].pre.last_opened_date = trace[k].cur)
        => (trace[k].post = trace[k].pre /\ trace[k].m1 = trace[k].m0)

\* C5: a Close that passes its guard leaves in the daily list and in each
\* retained tag list exactly the tasks that were not done, in order,
\* renumbered 1..N; a following Open does not change a non-empty daily list;
\* from [done a, not-done b] the daily list becomes [(1, b, not done)] and the
\* report lists a and not b.
PartitionOf(tags) ==
    LET kept == SelectSeqBy(tags, [i \in 1..Len(tags) |-> NotDone(tags[i].tasks) # <<>>])
    IN [i \in 1..Len(kept) |->
          [tag |-> kept[i].tag, tasks |-> Renumber(NotDone(kept[i].tasks))]]

C5_CloseKeepsNotDoneRenumbered ==
    \A k \in 1..Len(trace) :
        (trace[k].fn = "close" /\ trace[k].passed /\ trace[k].done) =>
          /\ trace[k].post.tasks = Renumber(NotDone(trace[k].pre.tasks))
          /\ \A i \in 1..Len(trace[k].post.tasks) :
                trace[k].post.tasks[i].item_id = i /\ ~trace[k].post.tasks[i].done
          /\ TaskLists(trace[k].post).tags = PartitionOf(TaskLists(trace[k].pre).tags)
          /\ (k < Len(trace) /\ trace[k + 1].fn = "open" /\ trace[k + 1].done
                /\ trace[k + 1].pre.tasks # <<>>)
             => trace[k + 1].post.tasks = trace[k + 1].pre.tasks
          /\ trace[k].pre.tasks = ExampleAB =>
                /\ trace[k].post.tasks = <<TaskItem(1, <<"b">>, FALSE)>>
                /\ archive[trace[k].a1].report.daily = << <<"a">> >>

C5_Witness ==
    \E k \in 1..(Len(trace) - 1) :
        /\ trace[k].fn = "close" /\ trace[k].passed /\ trace[k].done
        /\ trace[k].pre.tasks = ExampleAB
        /\ Len(TaskLists(trace[k].post).tags) > 0
        /\ trace[k + 1].fn = "open" /\ trace[k + 1].done

CommitIdx == {i \in 1..Len(events) : events[i].ev = "commit"}

\* the commit was made for the task the firing timer was armed for
OwnTimer(e) == e.by = "timeout" => e.jobtok = e.tok

\* C6: when the auto-skip timeout of a pending task races with an explicit
\* user action for that task, the task is committed at most once, into at most
\* one checklist.
C6_PendingTaskCommittedOnce ==
    \A i, j \in CommitIdx :
        (/\ events[i].tok = events[j].tok
         /\ OwnTimer(events[i]) /\ OwnTimer(events[j])
         /\ "timeout" \in {events[i].by, events[j].by})
        => i = j

\* C7: once the pending workflow was resolved by a path other than the timeout
\* and every handler has returned, no auto-skip job is armed.
C7_NoAutoSkipJobAfterResolution ==
    (/\ AllIdle
     /\ events # <<>>
     /\ events[Len(events)].ev = "resolve"
     /\ events[Len(events)].by # "timeout"
     /\ rec.pending_task_text = NoText)
    => \A k \in 1..Len(jobs) : jobs[k].name # AutoSkipName

\* C8: a timeout timer commits no task other than the one it was armed for: a
\* timer that fires after its task was resolved does not commit a newer
\* pending task.
C8_TimerCommitsOnlyItsOwnTask ==
    \A i \in CommitIdx : OwnTimer(events[i])

\* the text of the last message the user sent
LastUserText ==
    LET U == {m \in 1..Len(msgs) : msgs[m].kind = "user"}
    IN IF U = {} THEN NoText ELSE msgs[MaxOf(U)].items

PendingCaptured == rec.pending_task_text # NoText /\ rec.awaiting_tag

CommittedUntagged ==
    /\ rec.pending_task_text = NoText
    /\ ~rec.awaiting_tag
    /\ \E i \in 1..Len(rec.tasks) :
          CleanKey(rec.tasks[i].text) = CleanKey(LastUserText)

\* C9: a captured pending task that no tag action follows is eventually in the
\* daily list, with pending_task_text None and awaiting_tag false.
C9_PendingEventuallyInDaily == PendingCaptured ~> CommittedUntagged

\* C10: when two add_task_to_tag_checklist operations for a tag without a
\* checklist have both returned, the record has one entry for the tag, the
\* entry holds a task for the text of either operation (equal texts are merged
\* by save_user_state), and exactly one widget of the tag is left in the chat,
\* the one the entry refers to.
TagWidgets(tag) ==
    {m \in 1..Len(msgs) : msgs[m].kind = "tag" /\ msgs[m].title = tag /\ msgs[m].alive}

BothReturned == AllIdle /\ ops = 0

DailyWidgets == {m \in 1..Len(msgs) : msgs[m].kind = "daily" /\ msgs[m].alive}

\* C11: under any interleaving of concurrent create_checklist_for_user and
\* update_checklist_for_user calls, once all of them have returned at most one
\* daily widget is left undeleted, and checklist_message_id refers to it
C11_ConcurrentCallsLeaveOneDailyWidget ==
    AllIdle => DailyWidgets \subseteq {rec.checklist_message_id}


\* the words of a text: its maximal runs of non-space characters
RECURSIVE Words(_)
Words(t) ==
    IF t = <<>> THEN <<>>
    ELSE IF Head(t) = " " THEN Words(Tail(t))
    ELSE LET S == {i \in 1..Len(t) : t[i] = " "}
             n == IF S = {} THEN Len(t) + 1 ELSE CHOOSE i \in S : \A j \in S : i <= j
         IN <<SubSeq(t, 1, n - 1)>> \o Words(SubSeq(t, n, Len(t)))

\* equal after lowercasing, trimming and collapsing of inner whitespace
SameNormalized(a, b) == Words(Lower(a)) = Words(Lower(b))

\* every task of a record with the checklist it is in (DailyList or the tag)
AllTasks(snap) ==
    {[list |-> DailyList, task |-> snap.tasks[i]] : i \in 1..Len(snap.tasks)}
    \cup UNION {{[list |-> snap.tag_checklists[k].tag,
                  task |-> snap.tag_checklists[k].tasks[i]] :
                    i \in 1..Len(snap.tag_checklists[k].tasks)} :
                k \in 1..Len(snap.tag_checklists)}

TickIdx == {k \in 1..Len(events) : events[k].ev = "tick"}

\* the tasks of the event's checklist that the event names and whose done
\* flag differs afterwards
FlippedNamed(x) ==
    {a \in AllTasks(x.after) :
        /\ a.list = x.target
        /\ a.task.item_id \in x.e.done_ids \cup x.e.not_done_ids
        /\ [a EXCEPT !.task.done = ~@] \in AllTasks(x.before)}

\* any task whose done flag differs afterwards
Flipped(x) ==
    {a \in AllTasks(x.after) : [a EXCEPT !.task.done = ~@] \in AllTasks(x.before)}

\* C12: when a checklist event changes the done flag of a task, afterwards
\* every task of every checklist (daily and all tags) with the same normalized
\* text has the same done value, and no task with a different normalized text
\* was changed
C12_TickSyncsEqualTextsOnly ==
    \A k \in TickIdx :
        LET x == events[k] IN
        /\ \A a \in FlippedNamed(x), b \in AllTasks(x.after) :
              SameNormalized(a.task.text, b.task.text) => b.task.done = a.task.done
        /\ \A b \in Flipped(x) :
              \E a \in AllTasks(x.before) :
                  /\ a.list = x.target
                  /\ a.task.item_id \in x.e.done_ids \cup x.e.not_done_ids
                  /\ SameNormalized(a.task.text, b.task.text)

\* an event flipped a task it names and, with it, a task of another checklist
\* whose text differs in case or spacing only
C12_Witness ==
    \E k \in TickIdx :
        \E a \in FlippedNamed(events[k]), b \in Flipped(events[k]) :
            /\ b.list # a.list
            /\ b.task.text # a.task.text
            /\ SameNormalized(a.task.text, b.task.text)


\* the message the event was traced to is a widget the record refers to
Resolvable(x) ==
    \/ x.orig = x.before.checklist_message_id
    \/ \E i \in 1..Len(x.before.tag_checklists) :
          x.orig = x.before.tag_checklists[i].checklist_message_id

\* C14: an event that resolves neither to the daily checklist nor to a tag
\* checklist of the record changes no done flag (nor anything else of the
\* record), persists nothing, and the handler returns normally
C14_UnresolvedEventChangesNothing ==
    \A k \in TickIdx :
        ~Resolvable(events[k]) =>
            /\ events[k].after = events[k].before
            /\ events[k].db1 = events[k].db0

\* an unresolved event that names the item id of a not-done task of the record
C14_Witness ==
    \E k \in TickIdx :
        /\ ~Resolvable(events[k])
        /\ \E a \in AllTasks(events[k].before) :
              ~a.task.done /\ a.task.item_id \in events[k].e.done_ids
        /\ Idle("upd")

\* a record with every done flag cleared
WithoutDoneFlags(snap) ==
    [snap EXCEPT
       !.tasks = [i \in 1..Len(snap.tasks) |-> [snap.tasks[i] EXCEPT !.done = FALSE]],
       !.tag_checklists =
          [k \in 1..Len(snap.tag_checklists) |->
             [snap.tag_checklists[k] EXCEPT
                !.tasks = [i \in 1..Len(snap.tag_checklists[k].tasks) |->
                             [snap.tag_checklists[k].tasks[i] EXCEPT !.done = FALSE]]]]]

\* C15: a checklist event changes done flags only: the checklists of the
\* record, the (item_id, text) sequence of each of them, the widget references
\* and the pending-task and rollover fields are the same after the event as
\* before it, and no task is created
C15_TickChangesDoneFlagsOnly ==
    \A k \in TickIdx :
        WithoutDoneFlags(events[k].after) = WithoutDoneFlags(events[k].before)

\* an event flipped a task, with it a task of another text form, and the
\* record was saved
C15_Witness ==
    \E k \in TickIdx :
        /\ events[k].db1 # events[k].db0
        /\ \E a \in FlippedNamed(events[k]), b \in Flipped(events[k]) :
              b.task.text # a.task.text

\* the tag checklists of the record in the next state
TagStatesNext == TagStates([rec |-> rec', dicts |-> dicts', tco |-> tco'])

\* a close that passed its guards returns to its caller in this step
CloseReturns(p) ==
    /\ pc[p] \in {"c_send", "c_del_daily", "c_del_tag"}
    /\ pc'[p] = loc[p].cret

\* C16: in every reachable state every entry of tag_checklists has at least
\* one task, and immediately after a Close every tag that is retained has at
\* least one not-done task (a tag whose tasks were all done has been removed)
C16_TagsNeverEmptyAndCloseDropsDoneTags ==
    /\ [](\A i \in 1..Len(TagStates(World)) : TagStates(World)[i].tasks # <<>>)
    /\ [][\A p \in Procs :
            CloseReturns(p) =>
                \A i \in 1..Len(TagStatesNext) : NotDone(TagStatesNext[i].tasks) # <<>>]_vars

\* C18: in every rollover run by the timer or by the sweep, Open begins only
\* after Close has completed and persisted last_closed_date = the current local
\* date; Open is never run on a record that Close left unfinished
C18_OpenOnlyAfterCompletedClose ==
    [][\A p \in {"timer", "sweep"} :
          (pc[p] \in {"tm_closed", "sw_closed"} /\ pc'[p] \notin {pc[p], "idle"})
              => /\ rec.last_closed_date = loc[p].local_date
                 /\ db.last_closed_date = loc[p].local_date]_vars


\* positions at which a coroutine waits for a render it has issued
DailyRenderLabels == {"cc_send", "uc_edit"}

TagRenderLabels == {"rb_send", "at_edit1", "at_edit3"}

\* the coroutine issues a render in this step
RenderIssued(p) ==
    /\ pc'[p] \in DailyRenderLabels \cup TagRenderLabels
    /\ pc'[p] # pc[p]

\* the tasks, in the next state, of the checklist the render is for
RenderedList(p) ==
    LET wn == [rec |-> rec', dicts |-> dicts', tco |-> tco']
    IN IF pc'[p] \in DailyRenderLabels THEN rec'.tasks
       ELSE TagState(wn, loc'[p].tag).tasks

C17_LastClosedDateNeverDecreases ==
    [][rec'.last_closed_date >= rec.last_closed_date]_vars


\* a sweep pass that entered the close for the user returns
SweepPassEnds == pc["sweep"] # "idle" /\ pc'["sweep"] = "idle"

NoDoneTasksNext ==
    /\ \A i \in 1..Len(rec'.tasks) : ~rec'.tasks[i].done
    /\ \A o \in Range(dicts'[rec'.tag_checklists]) :
         \A i \in 1..Len(tco'[o].tasks) : ~tco'[o].tasks[i].done

\* C19: with the midnight timer lost and the local date past last_closed_date,
\* the next sweep pass closes the day and opens the new one: when it returns,
\* last_closed_date and last_opened_date are the current local date and no
\* done task is left
C19_SweepClosesAndOpensAfterLostTimer ==
    [][SweepPassEnds =>
         /\ rec'.last_closed_date = DateOf(now' + rec'.timezone_offset_minutes)
         /\ rec'.last_opened_date = DateOf(now' + rec'.timezone_offset_minutes)
         /\ NoDoneTasksNext]_vars


\* finalize_task_with_tag returns to the handler that called it
TagCommitEnds == pc["upd"] \in {"ft_added", "ft_del"} /\ pc'["upd"] = "idle"

TasksOfTag(row, tag) ==
    LET S == {i \in 1..Len(row.tag_checklists) : row.tag_checklists[i].tag = tag}
    IN IF S = {} THEN <<>> ELSE row.tag_checklists[CHOOSE i \in S : TRUE].tasks

CountNotDone(tasks, text) ==
    Cardinality({i \in 1..Len(tasks) : tasks[i].text = text /\ ~tasks[i].done})

\* C20: committing a pending task with an explicit tag (typed or selected)
\* adds exactly one not-done task with the pending text to the tag's
\* checklist, which exists afterwards, leaves the daily list as it was and
\* ends with the pending fields cleared
C20_TagCommitAddsOneTask ==
    [][TagCommitEnds =>
         LET before == events[1].before
             tag == loc["upd"].tag
             text == before.pending_task_text
         IN /\ CountNotDone(TasksOfTag(db', tag), text)
                  = CountNotDone(TasksOfTag(before, tag), text) + 1
            /\ db'.tasks = before.tasks
            /\ rec'.tasks = before.tasks
            /\ rec'.pending_task_text = NoText
            /\ ~rec'.awaiting_tag
            /\ rec'.pending_task_message_id = NoneId
            /\ rec'.pending_service_message_ids = <<>>]_vars


\* the widget of the tag committed to was no longer in the chat when the
\* handler began
TagWidgetGone ==
    LET before == events[1].before
        S == {i \in 1..Len(before.tag_checklists) :
                before.tag_checklists[i].tag = loc["upd"].tag}
    IN /\ S # {}
       /\ \A i \in S : LET m == before.tag_checklists[i].checklist_message_id
                       IN m \in 1..Len(msgs) /\ ~msgs[m].alive

WidgetOfTag(row, tag) ==
    LET S == {i \in 1..Len(row.tag_checklists) : row.tag_checklists[i].tag = tag}
    IN IF S = {} THEN NoneId
       ELSE row.tag_checklists[CHOOSE i \in S : TRUE].checklist_message_id

\* C21: when the edit of a tag's widget fails because the widget no longer
\* exists, add_task_to_tag_checklist recreates it from the tag's task list:
\* afterwards the tag holds every task it held before plus the new task, and
\* the new widget shows all of its not-done tasks
C21_RecreatedTagKeepsItsTasks ==
    [][TagCommitEnds /\ TagWidgetGone =>
         LET before == events[1].before
             tag == loc["upd"].tag
             bt == TasksOfTag(before, tag)
             at == TasksOfTag(db', tag)
             m == WidgetOfTag(db', tag)
         IN /\ \A i \in 1..Len(bt) : \E j \in 1..Len(at) :
                  at[j].text = bt[i].text /\ at[j].done = bt[i].done
            /\ \E j \in 1..Len(at) :
                  at[j].text = before.pending_task_text /\ ~at[j].done
            /\ m \in 1..Len(msgs')
            /\ msgs'[m].alive
            /\ msgs'[m].items = Render(at)]_vars


\* C22: in every reachable state, two tasks of the record that sit in
\* different checklists and have equal normalized text have the same done flag
C22_EqualTextsHaveEqualDoneFlags ==
    \A a \in AllTasks(Snap(World)), b \in AllTasks(Snap(World)) :
        (a.list # b.list /\ SameNormalized(a.task.text, b.task.text))
            => a.task.done = b.task.done


\* the checklists of a record that have a widget
LiveLists(snap) ==
    (IF snap.checklist_message_id # NoneId THEN {DailyList} ELSE {})
    \cup {snap.tag_checklists[k].tag :
            k \in {j \in 1..Len(snap.tag_checklists) :
                     snap.tag_checklists[j].checklist_message_id # NoneId}}

\* the checklists of a record that hold a task with one of the ids
MatchingLists(snap, ids) ==
    {a.list : a \in {b \in AllTasks(snap) : b.task.item_id \in ids}}

\* the daily checklist if it holds one of the ids, else the first tag that does
ExpectedList(snap, ids) ==
    LET S == {k \in 1..Len(snap.tag_checklists) :
                snap.tag_checklists[k].tag \in MatchingLists(snap, ids)}
    IN IF DailyList \in MatchingLists(snap, ids) THEN DailyList
       ELSE IF S = {} THEN NoTag
       ELSE snap.tag_checklists[CHOOSE k \in S : \A j \in S : k <= j].tag

\* the tasks of the list that the event names have the done flag it gives them
AppliedTo(x, list) ==
    \A a \in AllTasks(x.after) :
        a.list = list =>
            /\ a.task.item_id \in x.e.done_ids => a.task.done
            /\ a.task.item_id \in x.e.not_done_ids => ~a.task.done

\* C23: an event that carries item ids only, while a checklist with a widget
\* holds one of them, is applied to a checklist with a widget that holds
\* them: the daily checklist if it holds any of the ids, otherwise the first
\* tag checklist that does
C23_IdOnlyEventAppliedToLiveChecklist ==
    \A k \in TickIdx :
        LET x == events[k]
            ids == x.e.done_ids \cup x.e.not_done_ids
        IN (/\ x.e.cm = NoneId
            /\ x.e.reply = NoneId
            /\ MatchingLists(x.before, ids) \cap LiveLists(x.before) # {})
           => /\ ExpectedList(x.before, ids) \in LiveLists(x.before)
              /\ AppliedTo(x, ExpectedList(x.before, ids))


\* the checklist of a record whose widget has the message id: the daily one
\* first, then the first such tag
ListOfWidget(snap, mid) ==
    LET S == {k \in 1..Len(snap.tag_checklists) :
                snap.tag_checklists[k].checklist_message_id = mid}
    IN IF snap.checklist_message_id = mid THEN DailyList
       ELSE IF S = {} THEN NoTag
       ELSE snap.tag_checklists[CHOOSE k \in S : \A j \in S : k <= j].tag

\* the tasks of the event's origin checklist that the event names
NamedInOrigin(x) ==
    {a \in AllTasks(x.before) :
        /\ a.list = ListOfWidget(x.before, x.e.cm)
        /\ a.task.item_id \in x.e.done_ids \cup x.e.not_done_ids}

\* C24: when an event carries the message id of its origin widget, the ids
\* are looked up in the checklist with that checklist_message_id only (daily
\* first, then tags): a task changes only if it is a named task of that
\* checklist or has the normalized text of one, and an event none of whose
\* ids is an item_id of that checklist changes nothing
C24_IdsLookedUpInOriginChecklistOnly ==
    \A k \in TickIdx :
        LET x == events[k] IN
        x.e.cm # NoneId =>
            /\ \A b \in Flipped(x) :
                  \E a \in NamedInOrigin(x) : SameNormalized(a.task.text, b.task.text)
            /\ NamedInOrigin(x) = {} => (x.after = x.before /\ x.db1 = x.db0)

\* an event of a tag's widget flipped a task of the tag and named, besides, an
\* id that only another checklist has, whose task kept its flag
C24_Witness ==
    \E k \in TickIdx :
        LET x == events[k]
            ids == x.e.done_ids \cup x.e.not_done_ids
        IN /\ x.e.cm # NoneId
           /\ ListOfWidget(x.before, x.e.cm) \notin {DailyList, NoTag}
           /\ \E a \in NamedInOrigin(x) : a \in Flipped(x) \/ [a EXCEPT !.task.done = ~@] \in Flipped(x)
           /\ \E id \in ids :
                 /\ \A a \in NamedInOrigin(x) : a.task.item_id # id
                 /\ \E b \in AllTasks(x.before) :
                       /\ b.task.item_id = id
                       /\ b \in AllTasks(x.after)
                       /\ (id \in x.e.done_ids) # b.task.done


\* the tasks of a tag in a heap of tag checklists (none if the tag has no entry)
TagTasksIn(ts, tag) ==
    LET S == {k \in 1..Len(ts) : ts[k].tag = tag}
    IN IF S = {} THEN <<>> ELSE ts[CHOOSE k \in S : TRUE].tasks

\* C25: within one tag the item_ids given to new tasks are strictly
\* increasing over the tag's lifetime and an item_id once assigned is never
\* borne by a different task of that tag later, also after a rollover removed
\* tasks; in particular no step gives an item_id that a task of the tag bears
\* to another task of the tag, and a task that enters the tag gets an item_id
\* above those the tag holds
C25_TagItemIdsNeverReused ==
    [][\A tag \in Tags :
         LET old == TagTasksIn(TagStates(World), tag)
             new == TagTasksIn(TagStatesNext, tag)
         IN \A j \in 1..Len(new) :
              /\ \A i \in 1..Len(old) :
                    new[j].item_id = old[i].item_id => new[j].text = old[i].text
              /\ (\A i \in 1..Len(old) : old[i].text # new[j].text) =>
                    \A i \in 1..Len(old) : old[i].item_id < new[j].item_id]_vars


\* finalize_task_without_tag returns to the handler or job that called it
UntaggedCommitEnds(p) == pc[p] \in {"fw_updated", "fw_del"} /\ pc'[p] = "idle"

PendingCleared(r) ==
    /\ r.pending_task_text = NoText
    /\ ~r.awaiting_tag
    /\ r.pending_task_message_id = NoneId
    /\ r.pending_service_message_ids = <<>>

\* C26: after skip or timeout with pending text t the daily task list is the
\* previous list with one new not-done task of text t appended at the end,
\* whose item_id is the largest previous item_id plus one, whatever the list
\* held before, and the pending fields are cleared
C26_SkipAppendsTaskToDaily ==
    [][\A p \in {"upd", "askip"} :
         UntaggedCommitEnds(p) =>
            LET before == events[1].before IN
            /\ rec'.tasks = Append(before.tasks,
                                   TaskItem(MaxItemId(before.tasks) + 1,
                                            before.pending_task_text, FALSE))
            /\ db'.tasks = rec'.tasks
            /\ PendingCleared(rec')]_vars


\* the handler of a text message returns, and the message arrived while an
\* earlier task was waiting for its tag
TextArrivedWhilePending ==
    /\ pc["upd"] # "idle"
    /\ pc'["upd"] = "idle"
    /\ loc["upd"].extra # NoneId
    /\ events[1].before.awaiting_tag
    /\ events[1].before.pending_task_text # NoText

\* C27: when a new task text arrives while another task is waiting for its
\* tag, the new text becomes the pending task, the timer of the previous task
\* is cancelled, its scratch messages are deleted, and the previous text is
\* committed to no checklist
C27_NewTextReplacesPendingTask ==
    [][TextArrivedWhilePending =>
         LET before == events[1].before
             ids == before.pending_service_message_ids
         IN /\ rec'.pending_task_text = Strip(msgs[loc["upd"].extra].items)
            /\ \A k \in 1..Len(jobs') :
                  ~(jobs'[k].name = AutoSkipName
                      /\ jobs'[k].tok = before.pending_task_message_id)
            /\ \A i \in 1..Len(ids) : ~msgs'[ids[i]].alive
            /\ db'.tasks = before.tasks
            /\ db'.tag_checklists = before.tag_checklists]_vars


\* a step of cancel_pending_task: its synchronous start or the return of its
\* deletion loop
CancelStep ==
    \/ pc["upd"] = "idle" /\ pc'["upd"] = "cn_del"
    \/ pc["upd"] = "cn_del" /\ pc'["upd"] # "cn_del"

\* the cancellation of a task that was pending when the button was pressed
\* returns; cancel_pending_task keeps the id of the task's message in tok
CancelEnds ==
    /\ pc["upd"] = "cn_del"
    /\ pc'["upd"] = "idle"
    /\ loc["upd"].tok # NoneId

\* C28: the explicit cancellation of a pending task creates no task: no step
\* of the cancellation changes the daily task list or a tag checklist, in
\* memory or in the stored row, and when it returns the pending text is
\* empty, awaiting_tag is false, the pending message ids are empty and no
\* auto-skip job is armed
C28_CancelCreatesNoTask ==
    [][/\ CancelStep =>
            /\ rec'.tasks = rec.tasks
            /\ TagStatesNext = TagStates(World)
            /\ db'.tasks = db.tasks
            /\ db'.tag_checklists = db.tag_checklists
       /\ CancelEnds =>
            /\ PendingCleared(rec')
            /\ PendingCleared(db')
            /\ rec'.pending_confirm_job_id = NoJob
            /\ \A k \in 1..Len(jobs') : jobs'[k].name # AutoSkipName]_vars


CloseLabels == {"c_send", "c_del_daily", "c_del_tag"}

\* the close of process p reaches its partition: the record gets a new
\* tag_checklists dict
ClosePartitions(p) ==
    /\ pc[p] \in CloseLabels
    /\ pc'[p] \notin CloseLabels
    /\ rec'.tag_checklists # rec.tag_checklists

TextsOfTagInReport(report, tag) ==
    UNION {Range(report.tags[i].texts) :
             i \in {j \in 1..Len(report.tags) : report.tags[j].tag = tag}}

\* C29: every done task that Close removes from the record, daily or tagged,
\* other than the onboarding task, is in the report generated by that Close
\* under its tag, and the report holds no task that is not done
C29_RemovedTasksAreReported ==
    [][\A p \in Procs :
         ClosePartitions(p) =>
            LET report == loc[p].report
                ts == TagStates(World)
            IN /\ \A i \in 1..Len(rec.tasks) :
                     rec.tasks[i].done /\ rec.tasks[i].text # SmileText
                        => rec.tasks[i].text \in Range(report.daily)
               /\ \A k \in 1..Len(ts) : \A i \in 1..Len(ts[k].tasks) :
                     ts[k].tasks[i].done
                        => ts[k].tasks[i].text \in TextsOfTagInReport(report, ts[k].tag)
               /\ \A i \in 1..Len(rec.tasks) :
                     ~rec.tasks[i].done => rec.tasks[i].text \notin Range(report.daily)
               /\ \A k \in 1..Len(ts) : \A i \in 1..Len(ts[k].tasks) :
                     ~ts[k].tasks[i].done
                        => ts[k].tasks[i].text \notin TextsOfTagInReport(report, ts[k].tag)]_vars


\* the widgets a stored record refers to
WidgetRefs(row) ==
    ({row.checklist_message_id}
       \cup {row.tag_checklists[k].checklist_message_id :
               k \in 1..Len(row.tag_checklists)}) \ {NoneId}

\* C30: when a Close that passed its guard returns, checklist_message_id is
\* None for the daily checklist and for every retained tag checklist, and
\* every widget the record referred to before the Close has been deleted
C30_CloseResetsEveryWidgetReference ==
    [][\A p \in Procs :
         CloseReturns(p) =>
            /\ rec'.checklist_message_id = NoneId
            /\ \A k \in 1..Len(TagStatesNext) :
                  TagStatesNext[k].checklist_message_id = NoneId
            /\ \A m \in WidgetRefs(trace[loc[p].ctix].pre) : ~msgs'[m].alive]_vars


\* the close of process p passed its guard, its report send failed, and it
\* returns to its caller in this step
CloseReturnsUndelivered(p) ==
    /\ CloseReturns(p)
    /\ trace'[loc[p].ctix].r1 = trace'[loc[p].ctix].r0

\* the rollover handler of process p continues after a close whose report
\* send failed
RolloverContinuesUndelivered(p) ==
    /\ pc[p] \in {"tm_closed", "sw_closed"}
    /\ pc'[p] # pc[p]
    /\ trace[loc[p].ctix].passed
    /\ trace[loc[p].ctix].r1 = trace[loc[p].ctix].r0

RebuildReturns(p) ==
    /\ pc[p] = "rb_send"
    /\ pc'[p] # pc[p] \/ loc'[p] # loc[p]

\* the row with the widget reference of one tag blanked
WithoutWidgetOf(row, tag) ==
    [row EXCEPT !.tag_checklists =
        [i \in 1..Len(@) |-> IF @[i].tag = tag
                             THEN [@[i] EXCEPT !.checklist_message_id = NoneId]
                             ELSE @[i]]]

\* C32: the rebuild of a tag widget changes nothing in the record but that
\* tag's checklist_message_id, and when an Open has returned every tag's task
\* list and a non-empty daily task list are what they were before the Open
\* (ids, texts, done flags, order)
C32_OpenRerendersNeverReappends ==
    /\ [][\A p \in Procs :
            RebuildReturns(p) =>
               /\ WithoutWidgetOf(DbRow([rec |-> rec', dicts |-> dicts', tco |-> tco']),
                                  loc[p].tag)
                    = WithoutWidgetOf(DbRow(World), loc[p].tag)
               /\ TaskLists(db') = TaskLists(db)]_vars
    /\ [](\A k \in 1..Len(trace) :
            (trace[k].fn = "open" /\ trace[k].done) =>
               /\ TaskLists(trace[k].post).tags = TaskLists(trace[k].pre).tags
               /\ trace[k].pre.tasks # <<>> => trace[k].post.tasks = trace[k].pre.tasks)


\* C33: every time the per-user midnight job is scheduled (when the time is
\* set, when the jobs are restored after a restart, when the handler re-arms
\* it without a rollover) the job is due at the user's next local midnight:
\* between one minute and one day ahead, at local minute 0
C33_MidnightJobDueAtLocalMidnight ==
    [][pc["timer"] # "tm_opened" =>
         \A k \in 1..Len(jobs') :
            (jobs'[k].name = MidnightName /\ jobs'[k] \notin Range(jobs)) =>
               /\ (jobs'[k].at + rec'.timezone_offset_minutes) % MinutesPerDay = 0
               /\ jobs'[k].at - now' \in 1..MinutesPerDay]_vars


MidnightJobs(js) == {k \in 1..Len(js) : js[k].name = MidnightName}

\* C34: after every firing of handle_user_midnight, on every path through the
\* handler, exactly one midnight job is armed for the user
C34_ExactlyOneMidnightJobAfterFiring ==
    [][(pc["timer"] # "idle" /\ pc'["timer"] = "idle")
         => Cardinality(MidnightJobs(jobs')) = 1]_vars

NoDuplicates(h) == \A i, j \in 1..Len(h) : i # j => h[i] # h[j]

WithoutTag(h, tag) == SelectSeqBy(h, [i \in 1..Len(h) |-> h[i] # tag])

IsPrefix(s, t) == Len(s) <= Len(t) /\ s = SubSeq(t, 1, Len(s))

\* the history after a commit with the tag: the tag, then the other entries in
\* the order they had, as many of them as the cap leaves room for
RaisedFrom(after, before, tag) ==
    /\ after # <<>>
    /\ after[1] = tag
    /\ IsPrefix(Tail(after), WithoutTag(before, tag))
    /\ \/ Len(after) = Len(WithoutTag(before, tag)) + 1
       \/ Len(after) = TagsHistoryCap

\* C35: in every state the tag history (in memory and stored) has no duplicate
\* and at most 30 entries; when a commit with a tag (typed or selected) ends the
\* tag is the first entry and the other entries keep their relative order
C35_TagsHistoryRaisedAndCapped ==
    /\ [](/\ NoDuplicates(rec.tags_history)
          /\ Len(rec.tags_history) <= TagsHistoryCap
          /\ NoDuplicates(db.tags_history)
          /\ Len(db.tags_history) <= TagsHistoryCap)
    /\ [][TagCommitEnds =>
            /\ RaisedFrom(rec'.tags_history, events[1].before.tags_history,
                          loc["upd"].tag)
            /\ db'.tags_history = rec'.tags_history]_vars

\* a tag that was not in a full history was typed: it is first and the oldest
\* entry fell off
C35_Witness ==
    /\ pc["upd"] = "idle"
    /\ events # <<>>
    /\ events[1].before.tags_history = OldTags(TagsHistoryCap)
    /\ rec.tags_history = <<TagX>> \o OldTags(TagsHistoryCap - 1)
    /\ db.tags_history = rec.tags_history
    /\ TasksOfTag(db, TagX) # <<>>

\* the record in the next state, as it would be stored
RowNext == [rec' EXCEPT !.tag_checklists = TagStatesNext]

\* the newest message of the chat is a service message that is no part of the
\* pending-task dialogue
EventArrivedLast ==
    /\ msgs # <<>>
    /\ msgs[Len(msgs)].kind = "service"
    /\ rec # NoRecord
    /\ Len(msgs) \notin Range(rec.pending_service_message_ids)

\* C36: a checklist state-change event is handled by the sync engine only: the
\* update ends with it, the bot sends nothing and arms no job, a chat without
\* a record still has none, and a record keeps every field (onboarding, time,
\* pending task, tag history, task texts and ids) except done flags
C36_ChecklistEventOnlySynced ==
    [][OnboardEvent =>
         /\ pc'["upd"] = "idle"
         /\ SubSeq(msgs', 1, Len(msgs)) = msgs
         /\ Len(msgs') = Len(msgs) + 1
         /\ jobs' = jobs
         /\ IF rec = NoRecord THEN rec' = NoRecord /\ db' = NoRecord
            ELSE /\ rec' # NoRecord
                 /\ WithoutDoneFlags(RowNext) = WithoutDoneFlags(DbRow(World))]_vars

\* an event arrived while the tag of a pending task was awaited
C36_Witness ==
    /\ AllIdle
    /\ EventArrivedLast
    /\ rec # NoRecord
    /\ rec.awaiting_tag
    /\ rec.pending_task_text # NoText
    /\ rec.pending_confirm_job_id # NoJob

NoSharedId(tasks) ==
    \A i, j \in 1..Len(tasks) : i # j => tasks[i].item_id # tasks[j].item_id

NoSharedText(tasks) ==
    \A i, j \in 1..Len(tasks) :
        i # j => Lower(Strip(tasks[i].text)) # Lower(Strip(tasks[j].text))

\* positions of the first task of every item_id
FirstOfId(tasks) ==
    {i \in 1..Len(tasks) : \A j \in 1..(i - 1) : tasks[j].item_id # tasks[i].item_id}

\* of those, the positions of the first task of every trimmed lower-cased text
FirstOfText(tasks) ==
    {i \in FirstOfId(tasks) :
        \A j \in FirstOfId(tasks) :
            j < i => Lower(Strip(tasks[j].text)) # Lower(Strip(tasks[i].text))}

\* the tasks at the positions K, in the order of the list
TasksAt(tasks, K) ==
    [n \in 1..Cardinality(K) |->
        tasks[CHOOSE i \in K : Cardinality({j \in K : j <= i}) = n]]

CleanedAsDescribed(tasks) ==
    /\ clean_tasks_list(tasks) = TasksAt(tasks, FirstOfText(tasks))
    /\ clean_tasks_list(clean_tasks_list(tasks)) = clean_tasks_list(tasks)

\* every task list of a stored row
ListsOf(row) ==
    {row.tasks} \cup {row.tag_checklists[k].tasks : k \in 1..Len(row.tag_checklists)}

\* C37: in the stored record (written by save_user_state only) no checklist,
\* daily or tag, has two tasks with one item_id or with one trimmed
\* lower-cased text; clean_tasks_list keeps the first task of every item_id and
\* then the first of every text, in the original order, and cleaning a cleaned
\* list changes nothing; a save stores the cleaned lists of the record it got
C37_SavedListsHaveNoDuplicates ==
    /\ \A l \in ListsOf(db) : NoSharedId(l) /\ NoSharedText(l)
    /\ \A l \in ListsOf(DbRow(World)) : CleanedAsDescribed(l)
    /\ events # <<>> =>
         /\ db.tasks = TasksAt(events[1].before.tasks,
                               FirstOfText(events[1].before.tasks))
         /\ Len(db.tag_checklists) = Len(events[1].before.tag_checklists)
         /\ \A k \in 1..Len(db.tag_checklists) :
              db.tag_checklists[k].tasks =
                 TasksAt(events[1].before.tag_checklists[k].tasks,
                         FirstOfText(events[1].before.tag_checklists[k].tasks))

\* a list with two tasks of item_id 1 and two tasks of text "b" was saved: the
\* second task of item_id 1 went, so the later "b" stayed
C37_Witness ==
    /\ events # <<>>
    /\ events[1].before.tasks = <<TaskItem(1, <<"a">>, FALSE), TaskItem(1, <<"b">>, FALSE),
                                  TaskItem(2, <<"b">>, TRUE)>>
    /\ db.tasks = <<TaskItem(1, <<"a">>, FALSE), TaskItem(2, <<"b">>, TRUE)>>
    /\ rec.tasks = db.tasks

\* C38: a report and an archive record written by a rollover carry the date of
\* the day that ended (the day before the local date at the time of the Close),
\* never the date of the day that began
C38_ReportCarriesClosedDate ==
    /\ \A k \in 1..Len(archive) :
         /\ archive[k].date = archive[k].cur - 1
         /\ archive[k].report.date = archive[k].date
    /\ \A k \in 1..Len(reports) :
         /\ reports[k].date = reports[k].cur - 1
         /\ reports[k].report.date = reports[k].date

DailyTitleNow == get_checklist_title_from_date(get_user_local_date(World))

\* the handler of a pressed button that was no button of a tag of the user
\* returns
TitleSelectionEnds ==
    /\ pc["upd"] # "idle"
    /\ pc'["upd"] = "idle"
    /\ loc["upd"].by = "selected"
    /\ loc["upd"].tag \notin Tags

\* C39: when the pending task is committed with the title of the daily
\* checklist as its tag (the first button of the tag keyboard), a tag checklist
\* keyed by the title holds a not-done task with the pending text, the
\* title is the first entry of tags_history, the daily list is as it was and
\* the pending fields are cleared
C39_DailyTitleButtonMakesTagChecklist ==
    [][TitleSelectionEnds =>
         LET before == events[1].before
             text == before.pending_task_text
         IN /\ CountNotDone(TasksOfTag(db', DailyTitleNow), text) >= 1
            /\ rec'.tags_history # <<>>
            /\ rec'.tags_history[1] = DailyTitleNow
            /\ db'.tags_history = rec'.tags_history
            /\ rec'.tasks = before.tasks
            /\ db'.tasks = before.tasks
            /\ rec'.pending_task_text = NoText]_vars

\* the button was pressed with no checklist of that title: the checklist was
\* created with the task, the daily list did not grow
C39_Witness ==
    /\ pc["upd"] = "idle"
    /\ events # <<>>
    /\ events[1].before.pending_task_text # NoText
    /\ TasksOfTag(events[1].before, DailyTitleNow) = <<>>
    /\ TasksOfTag(db, DailyTitleNow)
          = <<TaskItem(1, events[1].before.pending_task_text, FALSE)>>
    /\ rec.tags_history # <<>>
    /\ rec.tags_history[1] = DailyTitleNow
    /\ rec.tasks = events[1].before.tasks
    /\ rec.pending_task_text = NoText

\* C40: at every UTC minute of the day, for every local minute of the day m the
\* user may enter, compute_local_datetime_and_offset gives an offset delta in
\* -720..719 with (u + delta) mod 1440 = m and the local datetime now + delta;
\* the offset stored with an accepted time is that delta
C40_OffsetInHalfDayRangeAndExact ==
    /\ (AllIdle /\ rec.waiting_for_time) =>
         \A m \in 0..(MinutesPerDay - 1) :
            LET r == compute_local_datetime_and_offset(now, m)
            IN /\ r.delta >= -720
               /\ r.delta < 720
               /\ ((now % MinutesPerDay) + r.delta) % MinutesPerDay = m
               /\ r.local_dt = now + r.delta
    /\ rec.time # NoTime =>
         /\ rec.timezone_offset_minutes >= -720
         /\ rec.timezone_offset_minutes < 720
         /\ (now + rec.timezone_offset_minutes) % MinutesPerDay = rec.time
         /\ rec.date = DateOf(now + rec.timezone_offset_minutes)

\* at 23:00 UTC the user entered 11:00: the offset is the lower end of the range
C40_Witness ==
    /\ AllIdle
    /\ now % MinutesPerDay = 1380
    /\ rec.time = 660
    /\ rec.timezone_offset_minutes = -720
    /\ db.timezone_offset_minutes = -720


====
